---- MODULE Spec2Model ----
(***************************************************************************)
(* A model of the DHS-To-Database ingestion engine.                        *)
(*                                                                         *)
(*   SpecDAT : cspro_parser/DAT_Parser.py, parse_dat_file: the per-line    *)
(*             demultiplexer of a fixed-width DAT file.                    *)
(*   SpecRel : cspro_parser/DCF_Parser.py, RelationRowProcessor: the state *)
(*             machine of the rows of a [Relation] chunk.                  *)
(*   SpecVS  : cspro_parser/DCF_Parser.py, DCF_Parser.parse and write: the *)
(*             [ValueSet] chunks that follow an item, line by line, and    *)
(*             the rows of FlatValuesSpec.csv.                             *)
(*   SpecDCF : cspro_parser/DCF_Parser.py, DCF_Parser.parse and write: a   *)
(*             whole dictionary, line by line, and the three files.        *)
(*   SpecRun : run_processing.py, run: the loop over the DCF files of one  *)
(*             process.                                                    *)
(*   SpecMeta: lib03_Update_Metadata.py, SurveyMetadataHelper: the calls   *)
(*             of one session on the catalog tables of the warehouse.      *)
(*   SpecData: lib04_Update_Table_Data.py, TableDataHelper: the calls of   *)
(*             one session on the data tables of the warehouse.            *)
(*                                                                         *)
(* Text is modelled as sequences of one-character strings, so that slices, *)
(* strip() and the regular expressions of the parsers are computed and not *)
(* assumed.                                                                *)
(***************************************************************************)
EXTENDS Integers, Sequences, FiniteSets, Bags, TLC

VARIABLES
    \* ---- parse_dat_file (DAT_Parser.py) ----
    specCsv,            \* the FlatRecordSpec csv the call reads
    outFolder,          \* out_folder: file name -> [header, rows]
    datPc,              \* position of the call
    dat,                \* the lines of the DAT file read so far
    result,             \* result: record type -> list of rows
    n_cols_per_table,   \* n_cols_per_table
    reported,           \* the "Specification ... not found" messages printed
    writeIdx,           \* position of the output loop over rt_field_info
    \* ---- RelationRowProcessor (DCF_Parser.py) ----
    myRelationProcessor, \* the five fields of the object
    relCall,            \* the last call made: <<fieldname, fieldvalue>> or <<"Emit", "">>
    relReturn,          \* what the last call returned: None or a relation
    relRaised,          \* whether the last call raised ValueError
    scriptPos,          \* how many calls of the documented call sequence were made
    scriptReturns,      \* what those calls returned
    \* ---- DCF_Parser.parse / write (DCF_Parser.py), valuesets ----
    expand_ranges,      \* parameter expand_ranges of parse()
    range_expansion_limit, \* parameter range_expansion_limit of parse()
    dcfPc,              \* position of parse() / write()
    dcfLine,            \* the kind of the line the loop read last
    currentChunkType,   \* currentChunkType
    chunkInfo,          \* chunkInfo: key -> value
    currentValues,      \* currentValues: the buffered value tuples
    myItems,            \* myItems: the items emitted so far
    _parsed,            \* self._parsed, Unset until parse() completes
    _items,             \* self._items, Unset until parse() completes
    _relations,         \* self._relations, Unset until parse() completes
    FlatValuesSpec,     \* the file <filecode>.FlatValuesSpec.csv
    chunkLines,         \* history: the Value= lines read since the last tag
    vsChunks,           \* history: the Value= lines of every terminated chunk
    blankLines,         \* history: blank lines read since the last non-blank line
    attachedValues,     \* history: the values the last blank line gave the item
    \* ---- DCF_Parser.parse / write (DCF_Parser.py), whole dictionaries ----
    dcf,                \* the chunks of the DCF file read so far, each with
                        \* the blank lines read behind it
    plan,               \* the DCF file as written and the changes to come
    chunkRest,          \* the lines of the chunk that are not read yet
    currentRecordName,  \* currentRecordName
    currentRecordLabel, \* currentRecordLabel
    currentRecordType,  \* currentRecordType
    currentLevelName,   \* currentLevelName
    currentLevelLabel,  \* currentLevelLabel
    currentSurveyDecChar,  \* currentSurveyDecChar
    currentSurveyZeroFill, \* currentSurveyZeroFill
    skippingChunk,      \* skippingChunk
    currentlyParsing,   \* currentlyParsing
    currentIds,         \* currentIds
    myRecords,          \* myRecords: record name -> label
    myLevels,           \* myLevels: level name -> label
    myRelations,        \* myRelations
    itemObj,            \* for each entry of myItems, the first entry that is
                        \* the same dict object
    chunkObj,           \* the entry of myItems that chunkInfo is, 0 if none
    _parsed_lines,      \* self._parsed_lines
    printed,            \* the warnings printed, with their line numbers
    exception,          \* the exception that ended parse(), "" if none
    MAIN_FIELD_NAMES,   \* the class attribute DCF_Parser.MAIN_FIELD_NAMES
    FlatRecordSpec,     \* the file <filecode>.FlatRecordSpec.csv
    RelationshipsSpec,  \* the file <filecode>.RelationshipsSpec.csv
    surveys,            \* run(): the DCF files the loop has handled
    \* ---- SurveyMetadataHelper (lib03), TableDataHelper (lib04) ----
    tablespec,          \* the rows of the column definitions catalog table
    valuespec,          \* the rows of the value descriptions catalog table
    specWidths,         \* catalog table -> column -> n of its varchar(n)
    dataTables,         \* data table -> [cols: column -> [type, width], rows]
    indices,            \* the indexes of the data schema: <<name, table, columns>>
    dry_run,            \* self._is_dry_run of both helpers
    _known_tables,      \* self._known_tables
    _modified_tables,   \* self._modified_tables
    _verified_tables,   \* self._verified_tables
    _json_tables,       \* self._json_tables
    dbCall,             \* the last call made: <<method, argument, ...>>
    dbReturn,           \* what the last call returned
    dbRaised,           \* the exception that ended the last call, "" if none
    dbPrinted,          \* what the last call printed
    loads,              \* how many files the session has asked to load
    par                 \* the loading processes that run side by side

datVars == <<specCsv, outFolder, datPc, dat, result, n_cols_per_table,
             reported, writeIdx>>

relVars == <<myRelationProcessor, relCall, relReturn, relRaised, scriptPos,
             scriptReturns>>

vsVars == <<expand_ranges, range_expansion_limit, dcfPc, dcfLine,
            currentChunkType, chunkInfo, currentValues, myItems, _parsed,
            _items, _relations, FlatValuesSpec, chunkLines, vsChunks,
            blankLines, attachedValues>>

dcfVars == <<dcf, plan, chunkRest, currentRecordName, currentRecordLabel, currentRecordType,
             currentLevelName, currentLevelLabel, currentSurveyDecChar,
             currentSurveyZeroFill, skippingChunk, currentlyParsing, currentIds,
             myRecords, myLevels, myRelations, itemObj, chunkObj, _parsed_lines,
             printed, exception, MAIN_FIELD_NAMES, FlatRecordSpec, RelationshipsSpec,
             surveys>>

dbVars == <<tablespec, valuespec, specWidths, dataTables, indices, dry_run,
            _known_tables, _modified_tables, _verified_tables, _json_tables,
            dbCall, dbReturn, dbRaised, dbPrinted, loads, par>>

vars == <<datVars, relVars, vsVars, dcfVars, dbVars>>

(***************************************************************************)
(* Text helpers                                                            *)
(***************************************************************************)
Min(a, b) == IF a <= b THEN a ELSE b
Max(a, b) == IF a >= b THEN a ELSE b

\* dict[k] = v
Put(f, k, v) == [x \in DOMAIN f \cup {k} |-> IF x = k THEN v ELSE f[x]]

\* The characters str.strip() removes (the ASCII ones the model uses).
IsSpace(c) == c \in {" ", "\n", "\t", "\r"}

\* Python's s[a:b] for 0-based a, b (negative indices count from the end).
PyIndex(i, n) == IF i < 0 THEN Max(i + n, 0) ELSE Min(i, n)
PySlice(s, a, b) ==
    LET lo == PyIndex(a, Len(s))
        hi == PyIndex(b, Len(s))
    IN  IF lo >= hi THEN <<>> ELSE SubSeq(s, lo + 1, hi)

RECURSIVE LStrip(_)
LStrip(s) ==
    IF s = <<>> THEN <<>>
    ELSE IF IsSpace(Head(s)) THEN LStrip(Tail(s)) ELSE s

RECURSIVE RStrip(_)
RStrip(s) ==
    IF s = <<>> THEN <<>>
    ELSE IF IsSpace(s[Len(s)]) THEN RStrip(SubSeq(s, 1, Len(s) - 1)) ELSE s

\* str.strip()
Strip(s) == RStrip(LStrip(s))

\* Code points of the characters the model uses (string comparison in sorted()).
Ord(c) ==
    CASE c = "\n" -> 10
      [] c = " " -> 32
      [] c = "0" -> 48
      [] c = "1" -> 49
      [] c = "2" -> 50
      [] c = "3" -> 51
      [] c = "4" -> 52
      [] c = "7" -> 55
      [] c = "A" -> 65
      [] c = "H" -> 72
      [] OTHER -> 127

\* Python's a < b on strings.
RECURSIVE StrLess(_, _)
StrLess(a, b) ==
    IF b = <<>> THEN FALSE
    ELSE IF a = <<>> THEN TRUE
    ELSE IF Head(a) = Head(b) THEN StrLess(Tail(a), Tail(b))
    ELSE Ord(Head(a)) < Ord(Head(b))

(***************************************************************************)
(* The FlatRecordSpec csv files of SpecDAT                                 *)
(***************************************************************************)
Fld(tag, name, start, len, rec) ==
    [RecordTypeValue |-> tag, Name |-> name, Start |-> start, Len |-> len,
     RecordName |-> rec]

\* The dictionary of the dispatch scenario: records '1' and '2'.
ScenarioCsv ==
    [Start |-> 1, Len |-> 1,
     rows |-> << Fld(<<"1">>, "CASEID", 2, 12, "R1"),
                 Fld(<<"2">>, "HHID", 2, 9, "R2"),
                 Fld(<<"2">>, "B16", 10, 2, "R2") >>]

\* Fields out of Start order in the csv, two fields with the same Start.
SmallCsv ==
    [Start |-> 1, Len |-> 1,
     rows |-> << Fld(<<"1">>, "V2", 2, 2, "REC01"),
                 Fld(<<"1">>, "CASEID", 1, 2, "REC01"),
                 Fld(<<"2">>, "B16", 2, 3, "REC21"),
                 Fld(<<"2">>, "HHID", 2, 2, "REC21") >>]

\* The record type in column 2; a record type that is a space.
SecondColumnCsv ==
    [Start |-> 2, Len |-> 1,
     rows |-> << Fld(<<" ">>, "V1", 1, 3, "RECA"),
                 Fld(<<"1">>, "HHID", 3, 1, "REC01"),
                 Fld(<<"1">>, "V3", 1, 1, "REC01") >>]

\* A record type of two characters.
WideTypeCsv ==
    [Start |-> 1, Len |-> 2,
     rows |-> << Fld(<<"1", "2">>, "V1", 3, 2, "REC12"),
                 Fld(<<"1", " ">>, "CASEID", 1, 3, "REC01") >>]

Csvs == {ScenarioCsv, SmallCsv, SecondColumnCsv, WideTypeCsv}

(***************************************************************************)
(* parse_dat_file: the index build                                         *)
(***************************************************************************)
\* rt_start, rt_end of the record type, from the first row of the csv.
rt_start(csv) == csv.Start - 1
rt_end(csv) == csv.Len + (csv.Start - 1)

\* itemgetter('RecordTypeValue', 'Start'): f sorts no later than g.
FieldKeyLE(f, g) ==
    \/ StrLess(f.RecordTypeValue, g.RecordTypeValue)
    \/ /\ f.RecordTypeValue = g.RecordTypeValue
       /\ f.Start <= g.Start

\* sorted() is stable: f goes behind every element whose key is <= its key.
RECURSIVE InsertField(_, _)
InsertField(sorted, f) ==
    IF sorted = <<>> THEN <<f>>
    ELSE IF FieldKeyLE(sorted[Len(sorted)], f) THEN Append(sorted, f)
    ELSE Append(InsertField(SubSeq(sorted, 1, Len(sorted) - 1), f),
                sorted[Len(sorted)])

RECURSIVE SortFields(_)
SortFields(rows) ==
    IF rows = <<>> THEN <<>>
    ELSE InsertField(SortFields(SubSeq(rows, 1, Len(rows) - 1)), rows[Len(rows)])

\* sorted_fields, computed once for each csv of the model.
SortedFieldsOf == [csv \in Csvs |-> SortFields(csv.rows)]

sorted_fields(csv) == SortedFieldsOf[csv]

\* The keys of rt_field_info, in insertion order.
RECURSIVE KeysInOrder(_)
KeysInOrder(fields) ==
    IF fields = <<>> THEN <<>>
    ELSE LET before == KeysInOrder(SubSeq(fields, 1, Len(fields) - 1))
             tag == fields[Len(fields)].RecordTypeValue
         IN  IF \E k \in 1..Len(before) : before[k] = tag
             THEN before ELSE Append(before, tag)

RecordTags(csv) == {csv.rows[k].RecordTypeValue : k \in 1..Len(csv.rows)}

\* rt_field_info, computed once for each csv of the model: the keys in
\* insertion order, and for each key its fields in sorted order.
RtFieldInfoOf ==
    [csv \in Csvs |->
        [keys |-> KeysInOrder(sorted_fields(csv)),
         fields |-> [tag \in RecordTags(csv) |->
                        SelectSeq(sorted_fields(csv),
                                  LAMBDA f : f.RecordTypeValue = tag)]]]

rt_keys(csv) == RtFieldInfoOf[csv].keys

\* rt_field_info[tag]
rt_field_info(csv, tag) == RtFieldInfoOf[csv].fields[tag]

(***************************************************************************)
(* parse_dat_file: one line                                                *)
(***************************************************************************)
\* A strip_or_not that trims the id columns too.
strip_or_not_AlwaysStrip(data, name) == Strip(data)

\* strip_or_not
strip_or_not(data, name) ==
    IF name \in {"CASEID", "HHID"} THEN data ELSE Strip(data)

\* A slice that takes Start as a 0-based offset.
FieldSlice_ZeroBased(line, f) == PySlice(line, f.Start, f.Start + f.Len)

\* line[i['Start'] - 1 : i['Start'] + i['Len'] - 1]
FieldSlice(line, f) == PySlice(line, f.Start - 1, f.Start + f.Len - 1)

\* rowParts
RowParts(line, record_spec) ==
    [k \in 1..Len(record_spec) |->
        strip_or_not(FieldSlice(line, record_spec[k]), record_spec[k].Name)]

\* A record type that is trimmed before it is looked up.
RecordTypeOf_Trimmed(csv, line) == Strip(PySlice(line, rt_start(csv), rt_end(csv)))

\* record_type = line[rt_start:rt_end]
RecordTypeOf(csv, line) == PySlice(line, rt_start(csv), rt_end(csv))

(***************************************************************************)
(* The inputs of SpecDAT                                                   *)
(***************************************************************************)
MaxLines == 2       \* lines of a DAT file
MaxLineLen == 2     \* characters of a generated line, before its newline

Alphabet == {"1", "2", " "}

Bodies == UNION {[1..n -> Alphabet] : n \in 0..MaxLineLen}

ScenarioLine1 == <<"1", "A", "A", "A", "A", "A", "A", "A", "A", "A", "A", "A", "A", "\n">>
ScenarioLine2 == <<"2", "H", "H", "H", "H", "1", "2", "3", "4", " ", "0", "7", "\n">>

\* A line as the file iterator yields it: with its newline, except that the
\* last line of a file may lack one.
DatLines ==
    {b \o <<"\n">> : b \in Bodies} \cup (Bodies \ {<<>>})
        \cup {ScenarioLine1, ScenarioLine2}

EndsLine(line) == line # <<>> /\ line[Len(line)] = "\n"

\* A file of an earlier run, left in out_folder.
OldFile == [header |-> <<"OLD">>, rows |-> <<>>]


(***************************************************************************)
(* RelationRowProcessor                                                    *)
(***************************************************************************)
None == "None"

\* __init__
EmptyProcessor ==
    [RelationshipName |-> "", PrimaryTable |-> "", PrimaryLink |-> "",
     SecondaryTable |-> "", SecondaryLink |-> ""]

\* A __GetReturnObj__ that returns the links as they are stored.
GetReturnObj_RawLinks(self) ==
    IF self.RelationshipName = "" \/ self.PrimaryTable = "" \/ self.SecondaryTable = ""
    THEN None
    ELSE [RelName |-> self.RelationshipName,
          PrimaryTable |-> self.PrimaryTable,
          SecondaryTable |-> self.SecondaryTable,
          PrimaryLink |-> self.PrimaryLink,
          SecondaryLink |-> self.SecondaryLink]

\* A __GetReturnObj__ that does not look at the secondary table.
GetReturnObj_AnySecondary(self) ==
    IF self.RelationshipName = "" \/ self.PrimaryTable = ""
    THEN None
    ELSE [RelName |-> self.RelationshipName,
          PrimaryTable |-> self.PrimaryTable,
          SecondaryTable |-> self.SecondaryTable,
          PrimaryLink |-> IF self.PrimaryLink # "" THEN self.PrimaryLink ELSE "*ROWID*",
          SecondaryLink |-> IF self.SecondaryLink # "" THEN self.SecondaryLink ELSE "*ROWID*"]

\* __GetReturnObj__
GetReturnObj(self) ==
    IF self.RelationshipName = "" \/ self.PrimaryTable = "" \/ self.SecondaryTable = ""
    THEN None
    ELSE [RelName |-> self.RelationshipName,
          PrimaryTable |-> self.PrimaryTable,
          SecondaryTable |-> self.SecondaryTable,
          PrimaryLink |-> IF self.PrimaryLink # "" THEN self.PrimaryLink ELSE "*ROWID*",
          SecondaryLink |-> IF self.SecondaryLink # "" THEN self.SecondaryLink ELSE "*ROWID*"]

\* The outcome of a call: the object afterwards, the value returned, and
\* whether the call raised.
Outcome(self, ret, raised) == [self |-> self, ret |-> ret, raised |-> raised]

\* An AddRow that overwrites the name and the primary table.
AddRow_Overwrite(self, fieldname, fieldvalue) ==
    CASE fieldname = "Name" ->
            Outcome([self EXCEPT !.RelationshipName = fieldvalue], None, FALSE)
      [] fieldname = "Primary" ->
            Outcome([self EXCEPT !.PrimaryTable = fieldvalue], None, FALSE)
      [] fieldname = "PrimaryLink" ->
            Outcome([self EXCEPT !.PrimaryLink = fieldvalue,
                                 !.SecondaryTable = "",
                                 !.SecondaryLink = ""],
                    GetReturnObj(self), FALSE)
      [] fieldname = "Secondary" ->
            Outcome([self EXCEPT !.PrimaryLink =
                                     IF self.SecondaryTable # "" THEN "" ELSE @,
                                 !.SecondaryTable = fieldvalue,
                                 !.SecondaryLink = ""],
                    GetReturnObj(self), FALSE)
      [] fieldname = "SecondaryLink" ->
            Outcome([self EXCEPT !.SecondaryLink = fieldvalue], None, FALSE)
      [] OTHER -> Outcome(self, None, TRUE)

\* An AddRow whose Secondary row keeps the primary link in every case.
AddRow_KeepPrimaryLink(self, fieldname, fieldvalue) ==
    CASE fieldname = "Name" ->
            IF self.RelationshipName # ""
            THEN Outcome(self, None, TRUE)
            ELSE Outcome([self EXCEPT !.RelationshipName = fieldvalue], None, FALSE)
      [] fieldname = "Primary" ->
            IF self.PrimaryTable # ""
            THEN Outcome(self, None, TRUE)
            ELSE Outcome([self EXCEPT !.PrimaryTable = fieldvalue], None, FALSE)
      [] fieldname = "PrimaryLink" ->
            Outcome([self EXCEPT !.PrimaryLink = fieldvalue,
                                 !.SecondaryTable = "",
                                 !.SecondaryLink = ""],
                    GetReturnObj(self), FALSE)
      [] fieldname = "Secondary" ->
            Outcome([self EXCEPT !.SecondaryTable = fieldvalue,
                                 !.SecondaryLink = ""],
                    GetReturnObj(self), FALSE)
      [] fieldname = "SecondaryLink" ->
            Outcome([self EXCEPT !.SecondaryLink = fieldvalue], None, FALSE)
      [] OTHER -> Outcome(self, None, TRUE)

\* AddRow
AddRow(self, fieldname, fieldvalue) ==
    CASE fieldname = "Name" ->
            IF self.RelationshipName # ""
            THEN Outcome(self, None, TRUE)
            ELSE Outcome([self EXCEPT !.RelationshipName = fieldvalue], None, FALSE)
      [] fieldname = "Primary" ->
            IF self.PrimaryTable # ""
            THEN Outcome(self, None, TRUE)
            ELSE Outcome([self EXCEPT !.PrimaryTable = fieldvalue], None, FALSE)
      [] fieldname = "PrimaryLink" ->
            Outcome([self EXCEPT !.PrimaryLink = fieldvalue,
                                 !.SecondaryTable = "",
                                 !.SecondaryLink = ""],
                    GetReturnObj(self), FALSE)
      [] fieldname = "Secondary" ->
            Outcome([self EXCEPT !.PrimaryLink =
                                     IF self.SecondaryTable # "" THEN "" ELSE @,
                                 !.SecondaryTable = fieldvalue,
                                 !.SecondaryLink = ""],
                    GetReturnObj(self), FALSE)
      [] fieldname = "SecondaryLink" ->
            Outcome([self EXCEPT !.SecondaryLink = fieldvalue], None, FALSE)
      [] OTHER -> Outcome(self, None, TRUE)

\* Emit
Emit(self) == Outcome(EmptyProcessor, GetReturnObj(self), FALSE)

\* The rows a [Relation] chunk can hold: each tag with the values the model
\* gives it (a value may be empty, as in "Name="), and a tag AddRow rejects.
FieldNames == {"Name", "Primary", "PrimaryLink", "Secondary", "SecondaryLink", "Occurs"}

FieldValues(fieldname) ==
    CASE fieldname = "Name" -> {"", "R", "R2"}
      [] fieldname = "Primary" -> {"", "P", "P2"}
      [] fieldname = "PrimaryLink" -> {"", "L2"}
      [] fieldname = "Secondary" -> {"", "S1", "S2"}
      [] fieldname = "SecondaryLink" -> {"", "L1"}
      [] OTHER -> {"1"}

\* The call sequence of the relation scenario.
Script ==
    << <<"Name", "R">>, <<"Primary", "P">>, <<"Secondary", "S1">>,
       <<"SecondaryLink", "L1">>, <<"PrimaryLink", "L2">>, <<"Secondary", "S2">>,
       <<"Emit", "">> >>

\* The observer of the scenario: it follows the calls made on an empty
\* processor for as long as they are the calls of Script.
Observe(call, out) ==
    IF scriptPos \in 0..(Len(Script) - 1) /\ call = Script[scriptPos + 1]
          /\ (scriptPos > 0 \/ myRelationProcessor = EmptyProcessor)
    THEN /\ scriptPos' = scriptPos + 1
         /\ scriptReturns' = Append(scriptReturns, out.ret)
    ELSE IF call = Script[1] /\ myRelationProcessor = EmptyProcessor
    THEN /\ scriptPos' = 1
         /\ scriptReturns' = <<out.ret>>
    ELSE /\ scriptPos' = -1
         /\ scriptReturns' = <<>>

RelIdle ==
    /\ myRelationProcessor = EmptyProcessor
    /\ relCall = <<>>
    /\ relReturn = None
    /\ relRaised = FALSE
    /\ scriptPos = 0
    /\ scriptReturns = <<>>

RelCall(call, out) ==
    /\ myRelationProcessor' = out.self
    /\ relCall' = call
    /\ relReturn' = out.ret
    /\ relRaised' = out.raised
    /\ Observe(call, out)

RelAddRow ==
    \E fieldname \in FieldNames : \E fieldvalue \in FieldValues(fieldname) :
        RelCall(<<fieldname, fieldvalue>>,
                AddRow(myRelationProcessor, fieldname, fieldvalue))

RelEmit == RelCall(<<"Emit", "">>, Emit(myRelationProcessor))


(***************************************************************************)
(* DCF_Parser.parse: the text of a Value= line                             *)
(***************************************************************************)
IsDigit(c) == c \in {"0", "1", "2", "3", "4", "5", "6", "7", "8", "9"}

DigitValue(c) ==
    CASE c = "0" -> 0 [] c = "1" -> 1 [] c = "2" -> 2 [] c = "3" -> 3
      [] c = "4" -> 4 [] c = "5" -> 5 [] c = "6" -> 6 [] c = "7" -> 7
      [] c = "8" -> 8 [] c = "9" -> 9

DigitChar(d) == <<"0", "1", "2", "3", "4", "5", "6", "7", "8", "9">>[d + 1]

\* The character of s at 1-based index i, or "" past its end.
At(s, i) == IF i >= 1 /\ i <= Len(s) THEN s[i] ELSE ""

\* str.find(c), 1-based; 0 when c does not occur.
RECURSIVE FindFrom(_, _, _)
FindFrom(s, c, i) ==
    IF i > Len(s) THEN 0
    ELSE IF s[i] = c THEN i ELSE FindFrom(s, c, i + 1)

SplitDescription_AtLast(fieldVal) ==
    LET ps == {p \in 1..Len(fieldVal) : fieldVal[p] = ";"}
        p == IF ps = {} THEN 0 ELSE CHOOSE q \in ps : \A r \in ps : r <= q
    IN  IF p = 0
        THEN [val |-> fieldVal, desc |-> <<>>]
        ELSE [val |-> SubSeq(fieldVal, 1, p - 1),
              desc |-> SubSeq(fieldVal, p + 1, Len(fieldVal))]

\* re.split(';(.*)$', fieldVal): the text before the first ';' and the text
\* after it; without a ';' the split has one part and the description is ''.
SplitDescription(fieldVal) ==
    LET p == FindFrom(fieldVal, ";", 1)
    IN  IF p = 0
        THEN [val |-> fieldVal, desc |-> <<>>]
        ELSE [val |-> SubSeq(fieldVal, 1, p - 1),
              desc |-> SubSeq(fieldVal, p + 1, Len(fieldVal))]

\* re.search('-?\d+:-?\d+', s): a digit, a colon, then a digit or '-' digit.
SearchRange(s) ==
    \E i \in 1..Len(s) :
        /\ IsDigit(s[i])
        /\ At(s, i + 1) = ":"
        /\ \/ IsDigit(At(s, i + 2))
           \/ At(s, i + 2) = "-" /\ IsDigit(At(s, i + 3))

\* The index behind the digits that start at i (i itself when there are none).
RECURSIVE DigitsEnd(_, _)
DigitsEnd(s, i) == IF IsDigit(At(s, i)) THEN DigitsEnd(s, i + 1) ELSE i

\* -?[0-9]+([.][0-9]+)? matched greedily at i: the index behind the match,
\* 0 when there is none.
NumberEnd(s, i) ==
    LET d == IF At(s, i) = "-" THEN i + 1 ELSE i
        e == DigitsEnd(s, d)
    IN  IF e = d THEN 0
        ELSE IF At(s, e) = "." /\ DigitsEnd(s, e + 1) > e + 1
             THEN DigitsEnd(s, e + 1)
             ELSE e

\* (-?[0-9]+([.][0-9]+)?)\:(-?[0-9]+([.][0-9]+)?) matched at i.
RangeAt(s, i) ==
    LET e1 == NumberEnd(s, i)
        e2 == IF e1 = 0 \/ At(s, e1) # ":" THEN 0 ELSE NumberEnd(s, e1 + 1)
    IN  IF e2 = 0
        THEN [found |-> FALSE]
        ELSE [found |-> TRUE, vMin |-> SubSeq(s, i, e1 - 1),
              vMax |-> SubSeq(s, e1 + 1, e2 - 1), end |-> e2]

\* re.findall: the matches from left to right, none overlapping.
RECURSIVE FindAllRanges(_, _)
FindAllRanges(s, i) ==
    IF i > Len(s) THEN <<>>
    ELSE LET m == RangeAt(s, i)
         IN  IF m.found
             THEN <<m>> \o FindAllRanges(s, m.end)
             ELSE FindAllRanges(s, i + 1)

(***************************************************************************)
(* Numbers: a float is the decimal n / 10^k with k as small as possible,   *)
(* which is exact for the decimals of the model.                           *)
(***************************************************************************)
RECURSIVE Pow10(_)
Pow10(k) == IF k = 0 THEN 1 ELSE 10 * Pow10(k - 1)

RECURSIVE DigitsToNat(_)
DigitsToNat(ds) ==
    IF ds = <<>> THEN 0
    ELSE 10 * DigitsToNat(SubSeq(ds, 1, Len(ds) - 1)) + DigitValue(ds[Len(ds)])

RECURSIVE Normalize(_, _)
Normalize(n, k) ==
    IF k > 0 /\ n % 10 = 0 THEN Normalize(n \div 10, k - 1)
    ELSE [n |-> n, k |-> k]

\* float(text) of a text that matches -?[0-9]+([.][0-9]+)?
Float(text) ==
    LET neg == At(text, 1) = "-"
        body == IF neg THEN Tail(text) ELSE text
        dot == FindFrom(body, ".", 1)
        ints == IF dot = 0 THEN body ELSE SubSeq(body, 1, dot - 1)
        frac == IF dot = 0 THEN <<>> ELSE SubSeq(body, dot + 1, Len(body))
        mag == DigitsToNat(ints \o frac)
    IN  [neg |-> neg /\ mag = 0] @@
        Normalize(IF neg THEN 0 - mag ELSE mag, Len(frac))

\* float.is_integer()
is_integer(x) == x.k = 0

\* int(x) of an integral float
IntOf(x) == x.n

\* (thisRangeMax - thisRangeMin) + 1, in units of 10^-k
RangeSizeScaled(lo, hi) ==
    LET k == Max(lo.k, hi.k)
    IN  [n |-> hi.n * Pow10(k - hi.k) - lo.n * Pow10(k - lo.k) + Pow10(k), k |-> k]

\* size <= bound, for an integer bound
SizeLE(size, bound) == size.n <= bound * Pow10(size.k)

RECURSIVE NatStr(_)
NatStr(n) ==
    IF n < 10 THEN <<DigitChar(n)>>
    ELSE Append(NatStr(n \div 10), DigitChar(n % 10))

\* str(n) of an int
IntStr(n) == IF n < 0 THEN <<"-">> \o NatStr(0 - n) ELSE NatStr(n)

RECURSIVE PadLeft(_, _)
PadLeft(ds, width) == IF Len(ds) >= width THEN ds ELSE PadLeft(<<"0">> \o ds, width)

\* str(x) of a float: at least one digit behind the point.
FloatStr(x) ==
    LET mag == IF x.n < 0 THEN 0 - x.n ELSE x.n
        sign == IF x.n < 0 \/ x.neg THEN <<"-">> ELSE <<>>
    IN  IF x.k = 0
        THEN sign \o NatStr(mag) \o <<".", "0">>
        ELSE sign \o NatStr(mag \div Pow10(x.k)) \o <<".">>
                  \o PadLeft(NatStr(mag % Pow10(x.k)), x.k)

(***************************************************************************)
(* DCF_Parser.parse: the lines of a [ValueSet] chunk                       *)
(***************************************************************************)
\* An attribute that the parser object does not have yet, and one it has.
Unset == [has |-> FALSE, value |-> <<>>]
Attribute(value) == [has |-> TRUE, value |-> value]

\* A file that does not exist, and one with the given rows under its header.
NoFile == [exists |-> FALSE, rows |-> <<>>]
CsvFile(rows) == [exists |-> TRUE, rows |-> rows]

\* The value of a value tuple: a str, an int or a float.
StrCell(s) == [kind |-> "str", s |-> s, n |-> 0, k |-> 0, neg |-> FALSE]
IntCell(i) == [kind |-> "int", s |-> <<>>, n |-> i, k |-> 0, neg |-> FALSE]
FloatCell(x) == [kind |-> "float", s |-> <<>>, n |-> x.n, k |-> x.k, neg |-> x.neg]

\* What csv.writer writes for a value: the str itself, str(int), str(float).
CsvCell(c) ==
    CASE c.kind = "str" -> c.s
      [] c.kind = "int" -> IntStr(c.n)
      [] c.kind = "float" -> FloatStr([neg |-> c.neg, n |-> c.n, k |-> c.k])

Get(info, key, default) == IF key \in DOMAIN info THEN info[key] ELSE default

\* Lines 399-472: a line whose key is Value. fieldVal is the stripped text
\* behind the first '='. A line with ranges adds (vMin, vMax, description) to
\* chunkInfo['ValueRanges'] for each of them; any other line buffers one
\* ExplicitValue tuple in currentValues.
OnValueLine(info, values, fieldVal) ==
    LET descMatch == SplitDescription(fieldVal)
        valDesc == descMatch.desc
        val == descMatch.val
        rangesOnLine == FindAllRanges(val, 1)
        added == [j \in 1..Len(rangesOnLine) |->
                    <<rangesOnLine[j].vMin, rangesOnLine[j].vMax, Strip(valDesc)>>]
    IN  IF SearchRange(val)
        THEN [chunkInfo |->
                 IF rangesOnLine = <<>> THEN info
                 ELSE Put(info, "ValueRanges",
                          Get(info, "ValueRanges", <<>>) \o added),
              currentValues |-> values]
        ELSE [chunkInfo |-> info,
              currentValues |->
                 Append(values, <<StrCell(val), Strip(valDesc), "ExplicitValue">>)]

\* Lines 474-476: any other key is stored on its first occurrence only.
OnKeyLine(info, fieldName, fieldVal) ==
    IF fieldName \in DOMAIN info THEN info ELSE Put(info, fieldName, fieldVal)

(***************************************************************************)
(* DCF_Parser.parse: the terminator of a [ValueSet] chunk                  *)
(***************************************************************************)
gotMultipleRanges_Never(ValueRanges) == FALSE

\* Line 297
gotMultipleRanges(ValueRanges) == Len(ValueRanges) > 1

TooNarrow_OnlyEmpty(rangeSize) == SizeLE(rangeSize, 0)

\* Line 309: rangeSize <= 1
TooNarrow(rangeSize) == SizeLE(rangeSize, 1)

ExpandedRows_HalfOpen(thisRangeMin, thisRangeMax, thisRangeDesc) ==
    [i \in 1..(IntOf(thisRangeMax) - IntOf(thisRangeMin)) |->
        <<IntCell(IntOf(thisRangeMin) + i - 1), thisRangeDesc, "ExpandedRange">>]

\* Lines 316-317 and 323-324: range(int(thisRangeMin), int(thisRangeMax) + 1)
ExpandedRows(thisRangeMin, thisRangeMax, thisRangeDesc) ==
    [i \in 1..(IntOf(thisRangeMax) - IntOf(thisRangeMin) + 1) |->
        <<IntCell(IntOf(thisRangeMin) + i - 1), thisRangeDesc, "ExpandedRange">>]

\* Lines 319-320 and 332-333
MultiRangeRows(thisRangeMin, thisRangeMax, thisRangeDesc) ==
    << <<FloatCell(thisRangeMin), thisRangeDesc, "MultiRangeMin">>,
       <<FloatCell(thisRangeMax), thisRangeDesc, "MultiRangeMax">> >>

\* Lines 326-327 and 335-336
SingleRangeRows(thisRangeMin, thisRangeMax, thisRangeDesc) ==
    << <<FloatCell(thisRangeMin), thisRangeDesc, "RangeMin">>,
       <<FloatCell(thisRangeMax), thisRangeDesc, "RangeMax">> >>

OverLimitRows_Expanded(thisRangeMin, thisRangeMax, thisRangeDesc, multiple) ==
    ExpandedRows(thisRangeMin, thisRangeMax, thisRangeDesc)

\* Lines 329-336: a range too big to expand
OverLimitRows(thisRangeMin, thisRangeMax, thisRangeDesc, multiple) ==
    IF multiple
    THEN MultiRangeRows(thisRangeMin, thisRangeMax, thisRangeDesc)
    ELSE SingleRangeRows(thisRangeMin, thisRangeMax, thisRangeDesc)

\* Lines 313-336: the tuples that one range appends to currentValues.
RangeRows(thisRangeMin, thisRangeMax, thisRangeDesc, multiple, strategy, limit) ==
    LET rangeSize == RangeSizeScaled(thisRangeMin, thisRangeMax)
        rangeIsInteger == is_integer(thisRangeMin) /\ is_integer(thisRangeMax)
    IN  IF SizeLE(rangeSize, limit)
        THEN IF multiple
             THEN IF strategy \in {"All", "Multiple"} /\ rangeIsInteger
                  THEN ExpandedRows(thisRangeMin, thisRangeMax, thisRangeDesc)
                  ELSE MultiRangeRows(thisRangeMin, thisRangeMax, thisRangeDesc)
             ELSE IF strategy = "All" /\ rangeIsInteger
                  THEN ExpandedRows(thisRangeMin, thisRangeMax, thisRangeDesc)
                  ELSE SingleRangeRows(thisRangeMin, thisRangeMax, thisRangeDesc)
        ELSE OverLimitRows(thisRangeMin, thisRangeMax, thisRangeDesc, multiple)

\* Lines 298-336: the loop over chunkInfo['ValueRanges']; the first range of
\* size <= 1 raises ValueError.
RECURSIVE RangeLoop(_, _, _, _, _)
RangeLoop(ValueRanges, values, multiple, strategy, limit) ==
    IF ValueRanges = <<>>
    THEN [raised |-> FALSE, currentValues |-> values]
    ELSE LET rangeInfo == Head(ValueRanges)
             thisRangeMin == Float(rangeInfo[1])
             thisRangeMax == Float(rangeInfo[2])
             thisRangeDesc == rangeInfo[3]
         IN  IF TooNarrow(RangeSizeScaled(thisRangeMin, thisRangeMax))
             THEN [raised |-> TRUE, currentValues |-> values]
             ELSE RangeLoop(Tail(ValueRanges),
                            values \o RangeRows(thisRangeMin, thisRangeMax,
                                                thisRangeDesc, multiple,
                                                strategy, limit),
                            multiple, strategy, limit)

\* Lines 290-336: the ranges of the chunk are appended to the buffered values.
Materialize(info, values, strategy, limit) ==
    IF "ValueRanges" \in DOMAIN info
    THEN RangeLoop(info["ValueRanges"], values,
                   gotMultipleRanges(info["ValueRanges"]), strategy, limit)
    ELSE [raised |-> FALSE, currentValues |-> values]

Attach_Replace(items, values) ==
    [items EXCEPT ![Len(items)] = Put(items[Len(items)], "Values", values)]

\* Lines 338-342: the values go to the last item, behind those it has.
Attach(items, values) ==
    LET last == items[Len(items)]
    IN  [items EXCEPT ![Len(items)] =
            Put(last, "Values", Get(last, "Values", <<>>) \o values)]

(***************************************************************************)
(* DCF_Parser.write: the rows of FlatValuesSpec.csv                        *)
(***************************************************************************)
RECURSIVE ValueRowsOf(_)
ValueRowsOf(items) ==
    IF items = <<>> THEN <<>>
    ELSE LET item == Head(items)
             vals == Get(item, "Values", <<>>)
         IN  [i \in 1..Len(vals) |->
                <<item["FileCode"], item["Name"], CsvCell(vals[i][1]),
                  vals[i][2], vals[i][3]>>]
             \o ValueRowsOf(Tail(items))

(***************************************************************************)
(* SpecVS: parse() reads the [ValueSet] chunks that follow an item, write() *)
(* writes FlatValuesSpec.csv.                                              *)
(*                                                                         *)
(* The dictionaries of SpecVS have been read up to the blank line behind   *)
(* an [Item] chunk, so that myItems ends with that item. Behind it they    *)
(* hold [ValueSet] chunks as CSPro writes them: the tag, the Label line,   *)
(* Value= lines, then one or more blank lines before the next tag. The     *)
(* file may end behind any line, also inside a chunk. The Label of a       *)
(* valueset is the label of its item, so that the similarity test of       *)
(* lines 281-288, which only prints a warning, is passed.                  *)
(***************************************************************************)
MaxValueSets == 1     \* [ValueSet] chunks behind the item
MaxValueLines == 2    \* Value= lines of a dictionary
MaxBlankLines == 2    \* blank lines in a row

Strategies == {"All", "Multiple", "None"}
Limits == {10, 100}

\* The item that parse() emitted last.
Item0 ==
    [FileCode |-> "XXIR01", Name |-> "V001", Label |-> "Age", Start |-> "13",
     Len |-> "2", ItemType |-> "Item", RecordName |-> "REC01"]

ValueLineIds ==
    {"Padded", "Time", "Zero", "Frac", "Two", "Back", "Months12", "Unknown",
     "Years", "Months5"}

\* The text after 'Value=' of each line, as the file has it.
ValueLineText ==
    [id \in ValueLineIds |->
        CASE id = "Padded" ->
               <<" ", "7", " ", ";", " ", "M", " ">>
          [] id = "Time" ->
               <<"1", ";", "a", ";", "b", " ", "2", ":", "0", "0">>
          [] id = "Zero" ->
               <<"2", ":", "2", ";", "M">>
          [] id = "Frac" ->
               <<"1", ".", "5", ":", "3", ";", "M">>
          [] id = "Two" ->
               <<"1", ":", "2", " ", "4", ":", "5", ";", "D">>
          [] id = "Back" ->
               <<"3", ":", "1", ";", "B">>
          [] id = "Months12" ->
               <<"1", ":", "1", "2", ";", "M", "o", "n", "t", "h", "s">>
          [] id = "Unknown" ->
               <<"9", "9", "9", "9", ";", "U", "n", "k", "n", "o", "w", "n">>
          [] id = "Years" ->
               <<"1", "3", ":", "1", "1", "2", ";", "Y", "e", "a", "r", "s",
               "+", "1", "2">>
          [] id = "Months5" ->
               <<"1", ":", "5", ";", "M", "o", "n", "t", "h", "s">>]

RECURSIVE CountLines(_)
CountLines(chunks) ==
    IF chunks = <<>> THEN 0 ELSE Len(Head(chunks)) + CountLines(Tail(chunks))

\* The Value= lines read so far.
ValueLinesRead ==
    CountLines(vsChunks) + (IF dcfPc = "chunk" THEN Len(chunkLines) ELSE 0)

VsIdle ==
    /\ expand_ranges = "All"
    /\ range_expansion_limit = 10
    /\ dcfPc = "idle"
    /\ dcfLine = ""
    /\ currentChunkType = "None"
    /\ chunkInfo = <<>>
    /\ currentValues = <<>>
    /\ myItems = <<>>
    /\ _parsed = Unset
    /\ _items = Unset
    /\ _relations = Unset
    /\ FlatValuesSpec = NoFile
    /\ chunkLines = <<>>
    /\ vsChunks = <<>>
    /\ blankLines = 0
    /\ attachedValues = <<>>

\* The state of parse() behind the blank line of the [Item] chunk.
AfterItem ==
    /\ expand_ranges \in Strategies
    /\ range_expansion_limit \in Limits
    /\ dcfPc = "between"
    /\ dcfLine = "blank"
    /\ currentChunkType = "Item"
    /\ chunkInfo = Item0
    /\ currentValues = <<>>
    /\ myItems = <<Item0>>
    /\ _parsed = Unset
    /\ _items = Unset
    /\ _relations = Unset
    /\ FlatValuesSpec = NoFile
    /\ chunkLines = <<>>
    /\ vsChunks = <<>>
    /\ blankLines = 1
    /\ attachedValues = <<>>

\* Lines 161-164: a [ValueSet] line.
VsTag ==
    /\ dcfPc = "between"
    /\ Len(vsChunks) < MaxValueSets
    /\ ValueLinesRead < MaxValueLines
    /\ dcfPc' = "chunk"
    /\ dcfLine' = "[ValueSet]"
    /\ currentChunkType' = "ValueSet"
    /\ chunkInfo' = <<>>
    /\ chunkLines' = <<>>
    /\ blankLines' = 0
    /\ UNCHANGED <<expand_ranges, range_expansion_limit, currentValues, myItems,
                   _parsed, _items, _relations, FlatValuesSpec, vsChunks,
                   attachedValues>>

\* Lines 388-390 and 474-476: the line Label=Age.
VsLabel ==
    /\ dcfPc = "chunk"
    /\ "Label" \notin DOMAIN chunkInfo
    /\ dcfLine' = "Label"
    /\ chunkInfo' = OnKeyLine(chunkInfo, "Label", "Age")
    /\ blankLines' = 0
    /\ UNCHANGED <<expand_ranges, range_expansion_limit, dcfPc, currentChunkType,
                   currentValues, myItems, _parsed, _items, _relations,
                   FlatValuesSpec, chunkLines, vsChunks, attachedValues>>

\* Lines 388-390 and 399-472: a line Value=<text>.
VsValue ==
    /\ dcfPc = "chunk"
    /\ "Label" \in DOMAIN chunkInfo
    /\ ValueLinesRead < MaxValueLines
    /\ \E id \in ValueLineIds :
          LET out == OnValueLine(chunkInfo, currentValues,
                                 Strip(ValueLineText[id] \o <<"\n">>))
          IN  /\ chunkInfo' = out.chunkInfo
              /\ currentValues' = out.currentValues
              /\ chunkLines' = Append(chunkLines, id)
    /\ dcfLine' = "Value"
    /\ blankLines' = 0
    /\ UNCHANGED <<expand_ranges, range_expansion_limit, dcfPc, currentChunkType,
                   myItems, _parsed, _items, _relations, FlatValuesSpec,
                   vsChunks, attachedValues>>

\* Lines 191 and 278-342: a blank line while currentChunkType is ValueSet.
\* The handler runs for every blank line, also for one that follows another.
VsBlank ==
    /\ dcfPc \in {"chunk", "between"}
    /\ currentChunkType = "ValueSet"
    /\ "Label" \in DOMAIN chunkInfo
    /\ blankLines < MaxBlankLines
    /\ LET out == Materialize(chunkInfo, currentValues, expand_ranges,
                              range_expansion_limit)
       IN  IF out.raised
           THEN /\ dcfPc' = "raised"
                /\ attachedValues' = <<>>
                /\ UNCHANGED <<myItems, currentValues>>
           ELSE /\ dcfPc' = "between"
                /\ myItems' = Attach(myItems, out.currentValues)
                /\ attachedValues' = out.currentValues
                /\ currentValues' = <<>>
    /\ dcfLine' = "blank"
    /\ blankLines' = blankLines + 1
    /\ vsChunks' = IF dcfPc = "chunk" THEN Append(vsChunks, chunkLines)
                   ELSE vsChunks
    /\ UNCHANGED <<expand_ranges, range_expansion_limit, currentChunkType,
                   chunkInfo, _parsed, _items, _relations, FlatValuesSpec,
                   chunkLines>>

\* Lines 479-494: the file is exhausted and parse() completes.
VsEndOfFile ==
    /\ dcfPc \in {"chunk", "between"}
    /\ dcfPc' = "parsed"
    /\ dcfLine' = "EOF"
    /\ _items' = Attribute(myItems)
    /\ _relations' = Attribute(<<>>)
    /\ _parsed' = Attribute(<<TRUE>>)
    /\ UNCHANGED <<expand_ranges, range_expansion_limit, currentChunkType,
                   chunkInfo, currentValues, myItems, FlatValuesSpec,
                   chunkLines, vsChunks, blankLines, attachedValues>>

\* Lines 496-534: write(), called on the parser after parse() returned or
\* raised. Without self._parsed it raises before it opens a file.
VsWrite ==
    /\ dcfPc \in {"parsed", "raised"}
    /\ IF _parsed.has /\ _parsed.value[1]
       THEN /\ dcfPc' = "written"
            /\ FlatValuesSpec' = CsvFile(ValueRowsOf(_items.value))
       ELSE /\ dcfPc' = "writeRaised"
            /\ UNCHANGED FlatValuesSpec
    /\ UNCHANGED <<expand_ranges, range_expansion_limit, dcfLine,
                   currentChunkType, chunkInfo, currentValues, myItems, _parsed,
                   _items, _relations, chunkLines, vsChunks, blankLines,
                   attachedValues>>

(***************************************************************************)
(* DCF_Parser.parse: a whole dictionary                                    *)
(*                                                                         *)
(* A line of the file is a tag line [Tag], a line Key=Value without        *)
(* padding (so that the split at the first '=' and strip() give Key and    *)
(* Value) or the blank line "\n". The value of a Value line names a text   *)
(* of ValueLineText.                                                       *)
(***************************************************************************)
TagLine(tag) == [kind |-> "tag", key |-> tag, val |-> ""]
KeyLine(key, val) == [kind |-> "key", key |-> key, val |-> val]
BlankLine == [kind |-> "blank", key |-> "", val |-> ""]

\* The tags of lines 148-182.
KnownTags ==
    {"Level", "Record", "Item", "ValueSet", "IdItems", "Dictionary", "Relation"}

\* Line 30: self._filecode
FileCode == "XXIR01"

\* The bool False of lines 117-118; csv.writer writes it as False.
PyFalse == "False"

\* The characters of the texts that parse() looks into.
Texts ==
    {"", "Age", "Age group", "Sex", "Case", "Women", "Men", "Respondent",
     "Births", "'1'", "1", "'2'", "2", "N/A"}

Chars ==
    [t \in Texts |->
        CASE t = "" -> <<>>
          [] t = "Age" -> <<"A", "g", "e">>
          [] t = "Age group" -> <<"A", "g", "e", " ", "g", "r", "o", "u", "p">>
          [] t = "Sex" -> <<"S", "e", "x">>
          [] t = "Case" -> <<"C", "a", "s", "e">>
          [] t = "Women" -> <<"W", "o", "m", "e", "n">>
          [] t = "Men" -> <<"M", "e", "n">>
          [] t = "Respondent" ->
               <<"R", "e", "s", "p", "o", "n", "d", "e", "n", "t">>
          [] t = "Births" -> <<"B", "i", "r", "t", "h", "s">>
          [] t = "N/A" -> <<"N", "/", "A">>
          [] t = "'1'" -> <<"'", "1", "'">>
          [] t = "1" -> <<"1">>
          [] t = "'2'" -> <<"'", "2", "'">>
          [] t = "2" -> <<"2">>]

Text(cs) == CHOOSE t \in Texts : Chars[t] = cs

\* str.strip(c) for a single character c
RECURSIVE LStripChar(_, _)
LStripChar(cs, c) ==
    IF cs # <<>> /\ Head(cs) = c THEN LStripChar(Tail(cs), c) ELSE cs

RECURSIVE RStripChar(_, _)
RStripChar(cs, c) ==
    IF cs # <<>> /\ cs[Len(cs)] = c
    THEN RStripChar(SubSeq(cs, 1, Len(cs) - 1), c) ELSE cs

StripQuotes_Not(t) == t

\* Lines 243 and 360: currentRecordType.strip("'")
StripQuotes(t) == Text(RStripChar(LStripChar(Chars[t], "'"), "'"))

\* difflib.SequenceMatcher.find_longest_match without junk: the longest block
\* a[i..i+k-1] = b[j..j+k-1], of those the one that starts first in a, and of
\* those the one that starts first in b.
BlockAt(a, b, i, j, k) ==
    /\ i + k - 1 <= Len(a)
    /\ j + k - 1 <= Len(b)
    /\ \A d \in 0..(k - 1) : a[i + d] = b[j + d]

LongestMatch(a, b) ==
    LET blocks == {m \in (1..Len(a)) \X (1..Len(b)) \X (1..Len(a)) :
                      BlockAt(a, b, m[1], m[2], m[3])}
        Better(m, o) ==
            \/ m[3] > o[3]
            \/ m[3] = o[3] /\ m[1] < o[1]
            \/ m[3] = o[3] /\ m[1] = o[1] /\ m[2] <= o[2]
    IN  IF blocks = {} THEN <<0, 0, 0>>
        ELSE CHOOSE m \in blocks : \A o \in blocks : Better(m, o)

\* The number of matched characters of get_matching_blocks().
RECURSIVE Matches(_, _)
Matches(a, b) ==
    LET m == LongestMatch(a, b)
    IN  IF m[3] = 0 THEN 0
        ELSE m[3]
             + Matches(SubSeq(a, 1, m[1] - 1), SubSeq(b, 1, m[2] - 1))
             + Matches(SubSeq(a, m[1] + m[3], Len(a)),
                       SubSeq(b, m[2] + m[3], Len(b)))

IsPrefix(p, cs) == Len(p) <= Len(cs) /\ SubSeq(cs, 1, Len(p)) = p

\* Lines 284-285: SM(None, s1, s2).ratio() > 0.7 or s1.find(s2) == 0, where
\* ratio() is 2.0 * matches / (len(s1) + len(s2)), and 1.0 for two empty texts.
SeemsToMatch(s1, s2) ==
    LET a == Chars[s1]
        b == Chars[s2]
    IN  \/ Len(a) + Len(b) = 0
        \/ 20 * Matches(a, b) > 7 * (Len(a) + Len(b))
        \/ IsPrefix(b, a)

\* chunkInfo[k] = v for every k of a dict literal
PutAll(f, g) ==
    [x \in DOMAIN f \cup DOMAIN g |-> IF x \in DOMAIN g THEN g[x] ELSE f[x]]

HasKeys(info, keys) == keys \subseteq DOMAIN info

(***************************************************************************)
(* The locals of parse() are held in a record s. chunkInfo is a dict       *)
(* object that myItems may hold too, once or several times: an assignment  *)
(* through one reference shows through all of them.                        *)
(***************************************************************************)
\* Lines 103-138
ParseStart ==
    [currentRecordName |-> "N/A", currentRecordLabel |-> "N/A",
     currentRecordType |-> "N/A", myRelationProcessor |-> EmptyProcessor,
     currentLevelName |-> "", currentLevelLabel |-> "",
     currentSurveyDecChar |-> PyFalse, currentSurveyZeroFill |-> PyFalse,
     currentValues |-> <<>>, skippingChunk |-> FALSE,
     currentlyParsing |-> "None", currentIds |-> <<>>, myRecords |-> <<>>,
     myLevels |-> <<>>, myItems |-> <<>>, myRelations |-> <<>>,
     chunkInfo |-> [FileCode |-> FileCode], currentChunkType |-> "None",
     itemObj |-> <<>>, chunkObj |-> 0, _parsed_lines |-> 0, printed |-> <<>>,
     raised |-> ""]

Raise(s, error) == [s EXCEPT !.raised = error]

Warn(s, warning) ==
    [s EXCEPT !.printed = Append(@, <<warning, s._parsed_lines>>)]

\* chunkInfo = {}
NewChunk(s) == [s EXCEPT !.chunkInfo = <<>>, !.chunkObj = 0]

\* An assignment to keys of chunkInfo.
SetChunk(s, info) ==
    [s EXCEPT !.chunkInfo = info,
              !.myItems = [i \in DOMAIN s.myItems |->
                              IF s.chunkObj # 0 /\ s.itemObj[i] = s.chunkObj
                              THEN info ELSE s.myItems[i]]]

\* myItems.append(chunkInfo)
AppendChunk(s) ==
    LET obj == IF s.chunkObj = 0 THEN Len(s.myItems) + 1 ELSE s.chunkObj
    IN  [s EXCEPT !.myItems = Append(@, s.chunkInfo),
                  !.itemObj = Append(@, obj),
                  !.chunkObj = obj]

\* myItems.append(newItem) for a new dict
AppendNew(s, newItem) ==
    [s EXCEPT !.myItems = Append(@, newItem),
              !.itemObj = Append(@, Len(s.myItems) + 1)]

\* An assignment to keys of myItems[-1].
SetLast(s, item) ==
    LET obj == s.itemObj[Len(s.myItems)]
    IN  [s EXCEPT !.myItems = [i \in DOMAIN s.myItems |->
                                  IF s.itemObj[i] = obj THEN item
                                  ELSE s.myItems[i]],
                  !.chunkInfo = IF s.chunkObj = obj THEN item ELSE @]

\* Lines 148-187: a line with a tag.
OnTag(s, tag) ==
    CASE tag = "Level" ->
            NewChunk([s EXCEPT !.currentChunkType = "Level",
                               !.skippingChunk = FALSE])
      [] tag = "Record" ->
            NewChunk([s EXCEPT !.currentChunkType = "Record",
                               !.currentlyParsing = "Records",
                               !.skippingChunk = FALSE])
      [] tag = "Item" ->
            NewChunk([s EXCEPT !.currentChunkType = "Item",
                               !.skippingChunk = FALSE])
      [] tag = "ValueSet" ->
            NewChunk([s EXCEPT !.currentChunkType = "ValueSet",
                               !.skippingChunk = FALSE])
      [] tag = "IdItems" ->
            NewChunk([s EXCEPT !.currentChunkType = "IdItems",
                               !.skippingChunk = FALSE,
                               !.currentlyParsing = "IdItems",
                               !.currentIds = <<>>])
      [] tag = "Dictionary" ->
            [s EXCEPT !.currentChunkType = "Dictionary",
                      !.currentlyParsing = "Dictionary",
                      !.skippingChunk = FALSE]
      [] tag = "Relation" ->
            NewChunk([s EXCEPT !.currentChunkType = "Relation",
                               !.currentlyParsing = "Relation",
                               !.skippingChunk = FALSE])
      [] OTHER -> [s EXCEPT !.skippingChunk = TRUE]

\* Lines 196-213: the blank line behind a [Dictionary] chunk.
EndDictionary(s) ==
    IF ~HasKeys(s.chunkInfo, {"RecordTypeStart", "RecordTypeLen"})
    THEN Raise(s, "KeyError")
    ELSE LET info == PutAll(s.chunkInfo,
                            [RecordName |-> "*", RecordLabel |-> "*",
                             RecordTypeValue |-> "*",
                             Start |-> s.chunkInfo["RecordTypeStart"],
                             Len |-> s.chunkInfo["RecordTypeLen"],
                             ItemType |-> "RecordDesciption"])
             t == AppendChunk(SetChunk(s, info))
         IN  IF ~HasKeys(info, {"ZeroFill", "DecimalChar"})
             THEN Raise(t, "KeyError")
             ELSE [t EXCEPT !.currentSurveyZeroFill = info["ZeroFill"],
                            !.currentSurveyDecChar = info["DecimalChar"]]

DuplicateRule_AlwaysNew(seen, name, label) == "new"

DuplicateRule_FirstLabelWins(seen, name, label) ==
    IF name \in DOMAIN seen THEN "warn" ELSE "new"

\* Lines 221-227 and 263-270: a name seen before with the same label is
\* reported, one seen with another label is an error.
DuplicateRule(seen, name, label) ==
    IF name \in DOMAIN seen
    THEN IF seen[name] = label THEN "warn" ELSE "raise"
    ELSE "new"

\* Lines 218-228: the blank line behind a [Level] chunk.
EndLevel(s) ==
    IF ~HasKeys(s.chunkInfo, {"Name", "Label"})
    THEN Raise(s, "KeyError")
    ELSE LET name == s.chunkInfo["Name"]
             label == s.chunkInfo["Label"]
             t == [s EXCEPT !.currentLevelName = name,
                            !.currentLevelLabel = label]
             rule == DuplicateRule(s.myLevels, name, label)
             u == IF rule = "warn" THEN Warn(t, "duplicate level") ELSE t
         IN  IF rule = "raise"
             THEN Raise(t, "ValueError")
             ELSE [u EXCEPT !.myLevels = Put(@, name, label)]

IdItemRows_OnlyFirst(info, ids) ==
    IF ids = <<>> THEN <<>>
    ELSE <<PutAll(info, [Name |-> Head(ids).Name, Label |-> Head(ids).Label,
                         Start |-> Head(ids).Start, Len |-> Head(ids).Len])>>

\* Lines 247-261: one new row for each id item, in the order of currentIds.
RECURSIVE IdItemRows(_, _)
IdItemRows(info, ids) ==
    IF ids = <<>> THEN <<>>
    ELSE <<PutAll(info, [Name |-> Head(ids).Name, Label |-> Head(ids).Label,
                         Start |-> Head(ids).Start, Len |-> Head(ids).Len])>>
         \o IdItemRows(info, Tail(ids))

RECURSIVE AppendAll(_, _)
AppendAll(s, rows) ==
    IF rows = <<>> THEN s ELSE AppendAll(AppendNew(s, Head(rows)), Tail(rows))

\* Lines 230-271: the blank line behind a [Record] chunk.
EndRecord(s) ==
    IF ~HasKeys(s.chunkInfo, {"Name", "Label", "RecordTypeValue"})
    THEN Raise(s, "KeyError")
    ELSE LET name == s.chunkInfo["Name"]
             label == s.chunkInfo["Label"]
             type == s.chunkInfo["RecordTypeValue"]
             info == PutAll(s.chunkInfo,
                            [FileCode |-> FileCode, RecordName |-> name,
                             RecordLabel |-> label,
                             RecordTypeValue |-> StripQuotes(type),
                             LevelName |-> s.currentLevelName,
                             LevelLabel |-> s.currentLevelLabel,
                             ItemType |-> "IdItem"])
             t == SetChunk([s EXCEPT !.currentRecordName = name,
                                     !.currentRecordLabel = label,
                                     !.currentRecordType = type], info)
             u == AppendAll(t, IdItemRows(info, s.currentIds))
             rule == DuplicateRule(s.myRecords, name, label)
             v == IF rule = "warn" THEN Warn(u, "duplicate record") ELSE u
         IN  IF rule = "raise"
             THEN Raise(u, "ValueError")
             ELSE [v EXCEPT !.myRecords = Put(@, name, label)]

\* Lines 278-342: the blank line behind a [ValueSet] chunk.
EndValueSet(s, strategy, limit) ==
    IF "Label" \notin DOMAIN s.chunkInfo
    THEN Raise(s, "KeyError")
    ELSE IF s.myItems = <<>>
    THEN Raise(s, "IndexError")
    ELSE IF "Label" \notin DOMAIN s.myItems[Len(s.myItems)]
    THEN Raise(s, "KeyError")
    ELSE LET s1 == s.chunkInfo["Label"]
             s2 == s.myItems[Len(s.myItems)]["Label"]
             t == IF SeemsToMatch(s1, s2) THEN s
                  ELSE Warn(s, "valueset did not seem to match item")
             out == Materialize(s.chunkInfo, s.currentValues, strategy, limit)
             u == [t EXCEPT !.currentValues = out.currentValues]
             items == Attach(u.myItems, u.currentValues)
         IN  IF out.raised
             THEN Raise(u, "ValueError")
             ELSE [SetLast(u, items[Len(items)]) EXCEPT !.currentValues = <<>>]

\* Lines 574-576: canEmit
canEmit(self) ==
    ~(self.RelationshipName = "" \/ self.PrimaryTable = ""
          \/ self.SecondaryTable = "")

\* Lines 344-350: the blank line behind a [Relation] chunk. Emit() may
\* return None, and None has no item assignment.
EndRelation(s) ==
    LET out == Emit(s.myRelationProcessor)
        t == [s EXCEPT !.myRelationProcessor = out.self]
    IN  IF ~canEmit(s.myRelationProcessor)
        THEN Raise(t, "TypeError")
        ELSE [t EXCEPT !.myRelations =
                          Append(@, Put(out.ret, "FileCode", FileCode))]

\* Lines 354-381: the blank line behind an [Item] chunk.
EndItem(s) ==
    IF s.currentlyParsing = "Records"
    THEN LET info == PutAll(s.chunkInfo,
                        [RecordName |-> s.currentRecordName,
                         RecordLabel |-> s.currentRecordLabel,
                         RecordTypeValue |-> StripQuotes(s.currentRecordType),
                         LevelName |-> s.currentLevelName,
                         LevelLabel |-> s.currentLevelLabel,
                         FileCode |-> FileCode,
                         ZeroFill |-> Get(s.chunkInfo, "ZeroFill",
                                          s.currentSurveyZeroFill),
                         DecimalChar |-> Get(s.chunkInfo, "DecimalChar",
                                             s.currentSurveyDecChar),
                         ItemType |-> "Item"])
         IN  AppendChunk(SetChunk(s, info))
    ELSE IF s.currentlyParsing = "IdItems"
    THEN IF ~HasKeys(s.chunkInfo, {"Name", "Label", "Start", "Len"})
         THEN Raise(s, "KeyError")
         ELSE [s EXCEPT !.currentIds =
                  Append(@, [Name |-> s.chunkInfo["Name"],
                             Label |-> s.chunkInfo["Label"],
                             Start |-> s.chunkInfo["Start"],
                             Len |-> s.chunkInfo["Len"]])]
    ELSE s

OnBlank_AlwaysSkip(s, strategy, limit) == [s EXCEPT !.skippingChunk = FALSE]

\* Lines 191-381: a blank line. Before the first tag currentChunkType is not
\* bound.
OnBlank(s, strategy, limit) ==
    IF s.skippingChunk THEN [s EXCEPT !.skippingChunk = FALSE]
    ELSE CASE s.currentChunkType = "None" -> Raise(s, "UnboundLocalError")
           [] s.currentChunkType = "Dictionary" -> EndDictionary(s)
           [] s.currentChunkType = "Level" -> EndLevel(s)
           [] s.currentChunkType = "Record" -> EndRecord(s)
           [] s.currentChunkType = "ValueSet" -> EndValueSet(s, strategy, limit)
           [] s.currentChunkType = "Relation" -> EndRelation(s)
           [] s.currentChunkType = "Item" -> EndItem(s)
           [] OTHER -> s

\* Lines 383-476: any other line, Key=Value.
OnKeyValue(s, fieldName, fieldVal) ==
    IF s.currentlyParsing = "Relation"
    THEN LET out == AddRow(s.myRelationProcessor, fieldName, fieldVal)
             t == [s EXCEPT !.myRelationProcessor = out.self]
         IN  IF out.raised THEN Raise(s, "ValueError")
             ELSE IF fieldName \in {"PrimaryLink", "Secondary"}
                     /\ canEmit(s.myRelationProcessor)
             THEN [t EXCEPT !.myRelations =
                               Append(@, Put(out.ret, "FileCode", FileCode))]
             ELSE t
    ELSE IF fieldName = "Value"
    THEN LET out == OnValueLine(s.chunkInfo, s.currentValues,
                                Strip(ValueLineText[fieldVal] \o <<"\n">>))
         IN  [SetChunk(s, out.chunkInfo) EXCEPT
                 !.currentValues = out.currentValues]
    ELSE SetChunk(s, OnKeyLine(s.chunkInfo, fieldName, fieldVal))

\* Lines 144-476: one turn of the loop over the lines of the file.
ParseLine(s, line, strategy, limit) ==
    LET t == [s EXCEPT !._parsed_lines = @ + 1]
    IN  CASE line.kind = "tag" -> OnTag(t, line.key)
          [] line.kind = "blank" -> OnBlank(t, strategy, limit)
          [] OTHER -> OnKeyValue(t, line.key, line.val)

\* Lines 479-489: the items that a relation names become joinable.
allJoinCols(relations) ==
    {<<relations[i].PrimaryTable, relations[i].PrimaryLink>> :
        i \in {j \in DOMAIN relations : relations[j].PrimaryLink # "*ROWID*"}}
    \cup
    {<<relations[i].SecondaryTable, relations[i].SecondaryLink>> :
        i \in {j \in DOMAIN relations : relations[j].SecondaryLink # "*ROWID*"}}

\* Line 488 asks for item['Name'] once the record of the item is in
\* allJoinCols.
FinalizeRaises(items, relations) ==
    \E i \in DOMAIN items :
        /\ items[i]["ItemType"] = "Item"
        /\ "Name" \notin DOMAIN items[i]
        /\ \E c \in allJoinCols(relations) : c[1] = items[i]["RecordName"]

Finalize_NoRetag(items, relations) == items

Finalize(items, relations) ==
    [i \in DOMAIN items |->
        IF items[i]["ItemType"] = "Item" /\ "Name" \in DOMAIN items[i]
           /\ <<items[i]["RecordName"], items[i]["Name"]>> \in allJoinCols(relations)
        THEN Put(items[i], "ItemType", "JoinableItem")
        ELSE items[i]]

\* Lines 144-476: the loop over the lines, left at the first line that
\* raises.
RECURSIVE ParseLines(_, _, _, _)
ParseLines(s, lines, strategy, limit) ==
    IF lines = <<>> \/ s.raised # "" THEN s
    ELSE ParseLines(ParseLine(s, Head(lines), strategy, limit), Tail(lines),
                    strategy, limit)

\* Lines 103-494: parse() of a whole file: whether it raises, and the items
\* and relations that it binds to the parser otherwise.
ParseOf(lines, strategy, limit) ==
    LET s == ParseLines(ParseStart, lines, strategy, limit)
    IN  IF s.raised # "" \/ FinalizeRaises(s.myItems, s.myRelations)
        THEN [raised |-> TRUE, _items |-> <<>>, _relations |-> <<>>]
        ELSE [raised |-> FALSE,
              _items |-> Finalize(s.myItems, s.myRelations),
              _relations |-> s.myRelations]

(***************************************************************************)
(* DCF_Parser.write: the three files                                       *)
(***************************************************************************)
\* Lines 20-22: MAIN_FIELD_NAMES as the class statement binds it.
MAIN_FIELD_NAMES_0 ==
    <<"ItemType", "FileCode", "RecordName", "RecordTypeValue", "RecordLabel",
      "Name", "Label", "Start", "Len", "Occurrences", "ZeroFill", "DecimalChar",
      "Decimal">>

\* Line 23
VAL_FIELD_NAMES == <<"FileCode", "Name", "Value", "ValueDesc", "ValueType">>

\* Lines 24-25
REL_FIELD_NAMES ==
    <<"FileCode", "RelName", "PrimaryTable", "PrimaryLink", "SecondaryTable",
      "SecondaryLink">>

\* A csv file with its header row and the rows under it.
CsvTable(header, rows) == [exists |-> TRUE, header |-> header, rows |-> rows]
NoTable == [exists |-> FALSE, header |-> <<>>, rows |-> <<>>]

SchemaFields_Copy(names, fme_compatible) ==
    IF fme_compatible THEN Append(MAIN_FIELD_NAMES_0, "FMETYPE")
    ELSE MAIN_FIELD_NAMES_0

\* Lines 503-505: schemafields is the list object of the class attribute, and
\* append() changes that object.
SchemaFields(names, fme_compatible) ==
    IF fme_compatible THEN Append(names, "FMETYPE") ELSE names

\* Line 525: f'fme_char({item["Len"]})'
FmeType(item) == <<"fme_char(", item["Len"], ")">>

\* Line 528: [item[k] if k in item else '' for k in schemafields]
RecordSpecRow(item, schemafields) ==
    LET shown == Put(item, "FMETYPE", FmeType(item))
    IN  [k \in 1..Len(schemafields) |-> Get(shown, schemafields[k], "")]

\* Lines 525-527: the item for which the loop raises before it writes a row.
ItemRaises(item, file_code) ==
    \/ "Len" \notin DOMAIN item
    \/ "FileCode" \notin DOMAIN item
    \/ item["FileCode"] # file_code

\* Lines 529-532: the item whose values cannot be written.
ValuesRaise(item) ==
    Get(item, "Values", <<>>) # <<>> /\ "Name" \notin DOMAIN item

\* Lines 524-534: what the loops write before they end or raise.
WriteLoop(items, relations, schemafields, file_code) ==
    LET bad == {i \in DOMAIN items :
                   ItemRaises(items[i], file_code) \/ ValuesRaise(items[i])}
        stop == IF bad = {} THEN Len(items) + 1
                ELSE CHOOSE i \in bad : \A j \in bad : i <= j
        rowsTo == IF bad # {} /\ ~ItemRaises(items[stop], file_code)
                  THEN stop ELSE stop - 1
    IN  [raised |-> bad # {},
         rows |-> [i \in 1..rowsTo |-> RecordSpecRow(items[i], schemafields)],
         vals |-> ValueRowsOf(SubSeq(items, 1, stop - 1)),
         rels |-> IF bad # {} THEN <<>>
                  ELSE [i \in DOMAIN relations |->
                           [k \in 1..Len(REL_FIELD_NAMES) |->
                               Get(relations[i], REL_FIELD_NAMES[k], "")]]]

(***************************************************************************)
(* The dictionaries of SpecDCF and SpecRun                                 *)
(*                                                                         *)
(* A dictionary is a sequence of chunks, each followed by blank lines.     *)
(* MinimalDcf and FullDcf are dictionaries as CSPro writes them. The file  *)
(* that parse() reads differs from one of the two by at most MaxEdits      *)
(* changes: a chunk put in at any place, a chunk left out, one more blank  *)
(* line behind a chunk, or no blank line behind the last chunk.            *)
(***************************************************************************)
MaxEdits == 1      \* changes made to a dictionary that CSPro wrote

ChunkLines(id) ==
    CASE id = "Dictionary" ->
            <<TagLine("Dictionary"), KeyLine("RecordTypeStart", "15"),
              KeyLine("RecordTypeLen", "1"), KeyLine("ZeroFill", "No"),
              KeyLine("DecimalChar", "Yes")>>
      [] id = "Level" ->
            <<TagLine("Level"), KeyLine("Name", "L"), KeyLine("Label", "Women")>>
      [] id = "LevelRelabelled" ->
            <<TagLine("Level"), KeyLine("Name", "L"), KeyLine("Label", "Men")>>
      [] id = "IdItems" -> <<TagLine("IdItems")>>
      [] id = "CASEID" ->
            <<TagLine("Item"), KeyLine("Name", "CASEID"), KeyLine("Label", "Case"),
              KeyLine("Start", "1"), KeyLine("Len", "12")>>
      [] id = "REC01" ->
            <<TagLine("Record"), KeyLine("Name", "REC01"),
              KeyLine("Label", "Respondent"), KeyLine("RecordTypeValue", "'1'")>>
      [] id = "REC01Relabelled" ->
            <<TagLine("Record"), KeyLine("Name", "REC01"),
              KeyLine("Label", "Births"), KeyLine("RecordTypeValue", "'1'")>>
      [] id = "REC02" ->
            <<TagLine("Record"), KeyLine("Name", "REC02"),
              KeyLine("Label", "Births"), KeyLine("RecordTypeValue", "'2'")>>
      [] id = "V001" ->
            <<TagLine("Item"), KeyLine("Name", "V001"), KeyLine("Label", "Age"),
              KeyLine("Start", "13"), KeyLine("Len", "2")>>
      [] id = "V002" ->
            <<TagLine("Item"), KeyLine("Name", "V002"), KeyLine("Label", "Sex"),
              KeyLine("Start", "16"), KeyLine("Len", "1"),
              KeyLine("ZeroFill", "Yes"), KeyLine("DecimalChar", "No")>>
      [] id = "AgeValues" ->
            <<TagLine("ValueSet"), KeyLine("Label", "Age"),
              KeyLine("Value", "Unknown")>>
      [] id = "AgeGroupValues" ->
            <<TagLine("ValueSet"), KeyLine("Label", "Age group"),
              KeyLine("Value", "Months5")>>
      [] id = "SexValues" ->
            <<TagLine("ValueSet"), KeyLine("Label", "Sex"),
              KeyLine("Value", "Padded")>>
      [] id = "Languages" ->
            <<TagLine("Languages"), KeyLine("Value", "Time"),
              KeyLine("Occurrences", "3")>>
      [] id = "Relation" ->
            <<TagLine("Relation"), KeyLine("Name", "REL"),
              KeyLine("Primary", "REC01"), KeyLine("PrimaryLink", "V001"),
              KeyLine("Secondary", "REC02"), KeyLine("SecondaryLink", "CASEID")>>
      [] id = "RelationNoSecondary" ->
            <<TagLine("Relation"), KeyLine("Name", "REL2"),
              KeyLine("Primary", "REC01")>>

Entry(id, blanks) == [chunk |-> id, blanks |-> blanks]

MinimalDcf == <<"Dictionary", "Level", "IdItems", "CASEID", "REC01", "V001">>

FullDcf ==
    <<"Dictionary", "Level", "IdItems", "CASEID", "REC01", "V001", "AgeValues",
      "REC02", "V002", "Relation">>

\* The chunks that are put in.
Inserted ==
    {"Level", "LevelRelabelled", "IdItems", "REC01", "REC01Relabelled", "V001",
     "AgeGroupValues", "SexValues", "Languages", "RelationNoSecondary"}

\* The file as written, of which the file read is a changed copy: the
\* chunks of it that are done with, and the changes that may still be made.
Plan(base, edits) == [base |-> base, pos |-> 0, edits |-> edits]

\* The chunk that may come next: the next chunk of the file as written, a
\* chunk put in, or the chunk behind chunks that are left out.
NextChunks(p) ==
    {[id |-> p.base[p.pos + 1 + d],
      plan |-> [p EXCEPT !.pos = @ + 1 + d, !.edits = @ - d]] :
        d \in {e \in 0..p.edits : p.pos + 1 + e <= Len(p.base)}}
    \cup
    {[id |-> id, plan |-> [p EXCEPT !.edits = @ - 1]] :
        id \in {i \in Inserted : p.edits > 0}}

\* The changes it takes to end the file here.
EditsToEnd(p, file) ==
    (Len(p.base) - p.pos)
    + (IF file # <<>> /\ file[Len(file)].blanks = 0 THEN 1 ELSE 0)

LastBlanks(file) == IF file = <<>> THEN 0 ELSE file[Len(file)].blanks

Blanks(n) == [i \in 1..n |-> BlankLine]

RECURSIVE LinesOfDcf(_)
LinesOfDcf(f) ==
    IF f = <<>> THEN <<>>
    ELSE ChunkLines(Head(f).chunk) \o Blanks(Head(f).blanks)
         \o LinesOfDcf(Tail(f))

\* The process before the first parse(): the class attribute is as the class
\* statement bound it.
BeforeParse ==
    /\ currentRecordName = "N/A"
    /\ currentRecordLabel = "N/A"
    /\ currentRecordType = "N/A"
    /\ currentLevelName = ""
    /\ currentLevelLabel = ""
    /\ currentSurveyDecChar = PyFalse
    /\ currentSurveyZeroFill = PyFalse
    /\ skippingChunk = FALSE
    /\ currentlyParsing = "None"
    /\ currentIds = <<>>
    /\ myRecords = <<>>
    /\ myLevels = <<>>
    /\ myRelations = <<>>
    /\ itemObj = <<>>
    /\ chunkObj = 0
    /\ _parsed_lines = 0
    /\ printed = <<>>
    /\ exception = ""
    /\ MAIN_FIELD_NAMES = MAIN_FIELD_NAMES_0
    /\ FlatRecordSpec = NoTable
    /\ RelationshipsSpec = NoTable
    /\ surveys = 0

\* No DCF file is read.
DcfIdle ==
    /\ dcf = <<>>
    /\ plan = Plan(<<>>, 0)
    /\ chunkRest = <<>>
    /\ BeforeParse

\* No helper of lib03 or lib04 is constructed.
DbIdle ==
    /\ tablespec = <<>>
    /\ valuespec = <<>>
    /\ specWidths = <<>>
    /\ dataTables = <<>>
    /\ indices = {}
    /\ dry_run = TRUE
    /\ _known_tables = {}
    /\ _modified_tables = {}
    /\ _verified_tables = {}
    /\ _json_tables = {}
    /\ dbCall = <<>>
    /\ dbReturn = <<>>
    /\ dbRaised = ""
    /\ dbPrinted = {}
    /\ loads = 0
    /\ par = <<>>

(***************************************************************************)
(* SpecDAT: parse_dat_file                                                 *)
(***************************************************************************)
DatInit ==
    /\ DbIdle
    /\ RelIdle
    /\ VsIdle
    /\ DcfIdle
    /\ specCsv \in Csvs
    /\ outFolder \in {<<>>, [n \in {"REC01"} |-> OldFile]}
    /\ datPc = "start"
    /\ dat = <<>>
    /\ result = <<>>
    /\ n_cols_per_table = <<>>
    /\ reported = <<>>
    /\ writeIdx = 0

\* parse_dat_file without the test of lines 25-28.
DatStart_IgnoresMarker ==
    /\ datPc = "start"
    /\ datPc' = "lines"
    /\ UNCHANGED <<specCsv, outFolder, dat, result, n_cols_per_table,
                   reported, writeIdx>>

\* Lines 25-28: the skip marker.
DatStart ==
    /\ datPc = "start"
    /\ datPc' = IF "REC01" \in DOMAIN outFolder THEN "skipped" ELSE "lines"
    /\ UNCHANGED <<specCsv, outFolder, dat, result, n_cols_per_table,
                   reported, writeIdx>>

\* Lines 71-112: one iteration of the loop over the lines of the file.
DatLine(line) ==
    LET record_type == RecordTypeOf(specCsv, line)
        known == record_type \in DOMAIN RtFieldInfoOf[specCsv].fields
        record_spec == rt_field_info(specCsv, record_type)
        rowParts == RowParts(line, record_spec)
        rowsBefore == IF record_type \in DOMAIN result
                      THEN result[record_type] ELSE <<>>
        colsOk == \/ record_type \notin DOMAIN n_cols_per_table
                  \/ Len(rowParts) = n_cols_per_table[record_type]
    IN  /\ datPc = "lines"
        /\ Len(dat) < MaxLines
        /\ dat' = Append(dat, line)
        /\ IF ~known
           THEN /\ reported' = Append(reported, <<record_type, Len(dat)>>)
                /\ UNCHANGED <<result, n_cols_per_table>>
                /\ datPc' = IF EndsLine(line) THEN "lines" ELSE "write"
           ELSE /\ UNCHANGED reported
                /\ IF colsOk
                   THEN /\ n_cols_per_table' =
                               IF record_type \in DOMAIN n_cols_per_table
                               THEN n_cols_per_table
                               ELSE Put(n_cols_per_table, record_type, Len(rowParts))
                        /\ result' = Put(result, record_type,
                                         Append(rowsBefore, rowParts))
                        /\ datPc' = IF EndsLine(line) THEN "lines" ELSE "write"
                   ELSE /\ result' = Put(result, record_type, rowsBefore)
                        /\ UNCHANGED n_cols_per_table
                        /\ datPc' = "raised"
        /\ UNCHANGED <<specCsv, outFolder, writeIdx>>

DatReadLine == \E line \in DatLines : DatLine(line)

\* The file iterator is exhausted after a line that ended with a newline.
DatEndOfFile ==
    /\ datPc = "lines"
    /\ datPc' = "write"
    /\ UNCHANGED <<specCsv, outFolder, dat, result, n_cols_per_table,
                   reported, writeIdx>>

\* Lines 114-128: one iteration of the loop over rt_field_info.items().
DatWriteFile ==
    /\ datPc = "write"
    /\ writeIdx < Len(rt_keys(specCsv))
    /\ LET record_type == rt_keys(specCsv)[writeIdx + 1]
           field_infos == rt_field_info(specCsv, record_type)
           field_header == [k \in 1..Len(field_infos) |-> field_infos[k].Name]
           field_records == {field_infos[k].RecordName : k \in 1..Len(field_infos)}
       IN  IF record_type \notin DOMAIN result
           THEN /\ writeIdx' = writeIdx + 1
                /\ UNCHANGED <<outFolder, datPc>>
           ELSE IF Cardinality(field_records) # 1
           THEN /\ datPc' = "raised"
                /\ UNCHANGED <<outFolder, writeIdx>>
           ELSE /\ outFolder' = Put(outFolder, CHOOSE r \in field_records : TRUE,
                                    [header |-> field_header,
                                     rows |-> result[record_type]])
                /\ writeIdx' = writeIdx + 1
                /\ UNCHANGED datPc
    /\ UNCHANGED <<specCsv, dat, result, n_cols_per_table, reported>>

\* The loop over rt_field_info is exhausted: the call returns.
DatReturn ==
    /\ datPc = "write"
    /\ writeIdx = Len(rt_keys(specCsv))
    /\ datPc' = "done"
    /\ UNCHANGED <<specCsv, outFolder, dat, result, n_cols_per_table,
                   reported, writeIdx>>

DatNext ==
    \/ DatStart /\ UNCHANGED <<relVars, vsVars, dcfVars, dbVars>>
    \/ DatReadLine /\ UNCHANGED <<relVars, vsVars, dcfVars, dbVars>>
    \/ DatEndOfFile /\ UNCHANGED <<relVars, vsVars, dcfVars, dbVars>>
    \/ DatWriteFile /\ UNCHANGED <<relVars, vsVars, dcfVars, dbVars>>
    \/ DatReturn /\ UNCHANGED <<relVars, vsVars, dcfVars, dbVars>>

SpecDAT == DatInit /\ [][DatNext]_vars


(***************************************************************************)
(* SpecRel: a RelationRowProcessor under any sequence of calls             *)
(***************************************************************************)
DatIdle ==
    /\ specCsv = SmallCsv
    /\ outFolder = <<>>
    /\ datPc = "idle"
    /\ dat = <<>>
    /\ result = <<>>
    /\ n_cols_per_table = <<>>
    /\ reported = <<>>
    /\ writeIdx = 0

RelInit == DatIdle /\ RelIdle /\ VsIdle /\ DcfIdle /\ DbIdle

RelNext ==
    \/ RelAddRow /\ UNCHANGED <<datVars, vsVars, dcfVars, dbVars>>
    \/ RelEmit /\ UNCHANGED <<datVars, vsVars, dcfVars, dbVars>>

SpecRel == RelInit /\ [][RelNext]_vars

(***************************************************************************)
(* SpecVS                                                                  *)
(***************************************************************************)
VsNext ==
    \/ VsTag /\ UNCHANGED <<datVars, relVars, dcfVars, dbVars>>
    \/ VsLabel /\ UNCHANGED <<datVars, relVars, dcfVars, dbVars>>
    \/ VsValue /\ UNCHANGED <<datVars, relVars, dcfVars, dbVars>>
    \/ VsBlank /\ UNCHANGED <<datVars, relVars, dcfVars, dbVars>>
    \/ VsEndOfFile /\ UNCHANGED <<datVars, relVars, dcfVars, dbVars>>
    \/ VsWrite /\ UNCHANGED <<datVars, relVars, dcfVars, dbVars>>

VsInit == DatIdle /\ RelIdle /\ AfterItem /\ DcfIdle /\ DbIdle

SpecVS == VsInit /\ [][VsNext]_vars

(***************************************************************************)
(* SpecDCF: parse() reads a dictionary line by line, write() writes the    *)
(* three files. SpecRun: run() does so for one DCF file after the other.   *)
(***************************************************************************)
\* The locals of parse() as the variables hold them.
Locals ==
    [currentRecordName |-> currentRecordName,
     currentRecordLabel |-> currentRecordLabel,
     currentRecordType |-> currentRecordType,
     myRelationProcessor |-> myRelationProcessor,
     currentLevelName |-> currentLevelName,
     currentLevelLabel |-> currentLevelLabel,
     currentSurveyDecChar |-> currentSurveyDecChar,
     currentSurveyZeroFill |-> currentSurveyZeroFill,
     currentValues |-> currentValues, skippingChunk |-> skippingChunk,
     currentlyParsing |-> currentlyParsing, currentIds |-> currentIds,
     myRecords |-> myRecords, myLevels |-> myLevels, myItems |-> myItems,
     myRelations |-> myRelations, chunkInfo |-> chunkInfo,
     currentChunkType |-> currentChunkType, itemObj |-> itemObj,
     chunkObj |-> chunkObj, _parsed_lines |-> _parsed_lines,
     printed |-> printed, raised |-> exception]

Bind(s) ==
    /\ currentRecordName' = s.currentRecordName
    /\ currentRecordLabel' = s.currentRecordLabel
    /\ currentRecordType' = s.currentRecordType
    /\ myRelationProcessor' = s.myRelationProcessor
    /\ currentLevelName' = s.currentLevelName
    /\ currentLevelLabel' = s.currentLevelLabel
    /\ currentSurveyDecChar' = s.currentSurveyDecChar
    /\ currentSurveyZeroFill' = s.currentSurveyZeroFill
    /\ currentValues' = s.currentValues
    /\ skippingChunk' = s.skippingChunk
    /\ currentlyParsing' = s.currentlyParsing
    /\ currentIds' = s.currentIds
    /\ myRecords' = s.myRecords
    /\ myLevels' = s.myLevels
    /\ myItems' = s.myItems
    /\ myRelations' = s.myRelations
    /\ chunkInfo' = s.chunkInfo
    /\ currentChunkType' = s.currentChunkType
    /\ itemObj' = s.itemObj
    /\ chunkObj' = s.chunkObj
    /\ _parsed_lines' = s._parsed_lines
    /\ printed' = s.printed
    /\ exception' = s.raised

\* A new DCF_Parser on which parse() has been called (lines 27-32, 103-138).
NewParser ==
    /\ Bind(ParseStart)
    /\ dcfPc' = "lines"
    /\ dcfLine' = ""
    /\ blankLines' = 0
    /\ _parsed' = Unset
    /\ _items' = Unset
    /\ _relations' = Unset
    /\ FlatRecordSpec' = NoTable
    /\ FlatValuesSpec' = NoFile
    /\ RelationshipsSpec' = NoTable

\* parse() of run(), line 84: the parameters have their defaults.
ParseCalled(files, edits) ==
    /\ DatIdle
    /\ DbIdle
    /\ RelIdle
    /\ BeforeParse
    /\ dcf = <<>>
    /\ plan \in {Plan(f, edits) : f \in files}
    /\ chunkRest = <<>>
    /\ expand_ranges = "All"
    /\ range_expansion_limit = 10000
    /\ dcfPc = "lines"
    /\ dcfLine = ""
    /\ currentChunkType = "None"
    /\ chunkInfo = [FileCode |-> FileCode]
    /\ currentValues = <<>>
    /\ myItems = <<>>
    /\ _parsed = Unset
    /\ _items = Unset
    /\ _relations = Unset
    /\ FlatValuesSpec = NoFile
    /\ chunkLines = <<>>
    /\ vsChunks = <<>>
    /\ blankLines = 0
    /\ attachedValues = <<>>

\* Lines 144-476: one turn of the loop over the lines of the file.
ReadLine(line) ==
    \E s \in {ParseLine(Locals, line, expand_ranges, range_expansion_limit)} :
        /\ Bind(s)
        /\ dcfPc' = IF s.raised # "" THEN "raised" ELSE "lines"
        /\ dcfLine' = line.kind
        /\ blankLines' = IF line.kind = "blank" THEN blankLines + 1 ELSE 0
        /\ UNCHANGED <<expand_ranges, range_expansion_limit, _parsed, _items,
                       _relations, FlatValuesSpec, chunkLines, vsChunks,
                       attachedValues>>
        /\ UNCHANGED <<MAIN_FIELD_NAMES, FlatRecordSpec, RelationshipsSpec,
                       surveys>>
        /\ UNCHANGED <<relCall, relReturn, relRaised, scriptPos, scriptReturns>>
        /\ UNCHANGED <<datVars, dbVars>>

\* Lines 148-187: the next line is the tag of a chunk.
DcfTagLine ==
    /\ dcfPc = "lines"
    /\ chunkRest = <<>>
    /\ dcf = <<>> \/ LastBlanks(dcf) > 0
    /\ \E next \in NextChunks(plan) :
          /\ dcf' = Append(dcf, Entry(next.id, 0))
          /\ plan' = next.plan
          /\ chunkRest' = Tail(ChunkLines(next.id))
          /\ ReadLine(Head(ChunkLines(next.id)))

\* Lines 383-476: the next line is a line Key=Value of the chunk.
DcfKeyValueLine ==
    /\ dcfPc = "lines"
    /\ chunkRest # <<>>
    /\ chunkRest' = Tail(chunkRest)
    /\ ReadLine(Head(chunkRest))
    /\ UNCHANGED <<dcf, plan>>

\* Lines 191-381: the next line is a blank line.
DcfBlankLine ==
    /\ dcfPc = "lines"
    /\ chunkRest = <<>>
    /\ dcf # <<>>
    /\ LastBlanks(dcf) > 0 => plan.edits > 0
    /\ dcf' = [dcf EXCEPT ![Len(dcf)].blanks = @ + 1]
    /\ plan' = IF LastBlanks(dcf) > 0 THEN [plan EXCEPT !.edits = @ - 1]
               ELSE plan
    /\ ReadLine(BlankLine)
    /\ UNCHANGED chunkRest

\* Lines 477-494: the file is exhausted; the joinable items are marked and
\* parse() completes.
DcfEndOfFile ==
    /\ dcfPc = "lines"
    /\ chunkRest = <<>>
    /\ dcf # <<>>
    /\ EditsToEnd(plan, dcf) <= plan.edits
    /\ \E items \in {Finalize(myItems, myRelations)} :
           IF FinalizeRaises(myItems, myRelations)
           THEN /\ dcfPc' = "raised"
                /\ exception' = "KeyError"
                /\ UNCHANGED <<myItems, chunkInfo, _items, _relations, _parsed>>
           ELSE /\ dcfPc' = "parsed"
                /\ myItems' = items
                /\ chunkInfo' = IF chunkObj # 0 THEN items[chunkObj] ELSE chunkInfo
                /\ _items' = Attribute(items)
                /\ _relations' = Attribute(myRelations)
                /\ _parsed' = Attribute(<<TRUE>>)
                /\ UNCHANGED exception
    /\ dcfLine' = "EOF"
    /\ UNCHANGED <<expand_ranges, range_expansion_limit, currentChunkType,
                   currentValues, FlatValuesSpec, chunkLines, vsChunks,
                   blankLines, attachedValues>>
    /\ UNCHANGED <<dcf, plan, chunkRest, currentRecordName, currentRecordLabel, currentRecordType,
                   currentLevelName, currentLevelLabel, currentSurveyDecChar,
                   currentSurveyZeroFill, skippingChunk, currentlyParsing,
                   currentIds, myRecords, myLevels, myRelations, itemObj,
                   chunkObj, _parsed_lines, printed, MAIN_FIELD_NAMES,
                   FlatRecordSpec, RelationshipsSpec, surveys>>
    /\ UNCHANGED <<relVars, datVars, dbVars>>

\* Lines 496-534: write(fme_compatible) on the parser, after parse() returned
\* or raised.
Write(fme_compatible) ==
    /\ dcfPc \in {"parsed", "raised"}
    /\ IF ~_parsed.has
       THEN /\ dcfPc' = "writeRaised"
            /\ UNCHANGED <<MAIN_FIELD_NAMES, FlatRecordSpec, FlatValuesSpec,
                           RelationshipsSpec>>
       ELSE LET schemafields == SchemaFields(MAIN_FIELD_NAMES, fme_compatible)
                items == _items.value
            IN  /\ MAIN_FIELD_NAMES' = schemafields
                /\ IF items = <<>> \/ "FileCode" \notin DOMAIN items[1]
                   THEN /\ dcfPc' = "writeRaised"
                        /\ UNCHANGED <<FlatRecordSpec, FlatValuesSpec,
                                       RelationshipsSpec>>
                   ELSE \E out \in {WriteLoop(items, _relations.value,
                                              schemafields,
                                              items[1]["FileCode"])} :
                            /\ dcfPc' = IF out.raised THEN "writeRaised"
                                        ELSE "written"
                            /\ FlatRecordSpec' = CsvTable(schemafields, out.rows)
                            /\ FlatValuesSpec' = CsvFile(out.vals)
                            /\ RelationshipsSpec' =
                                   CsvTable(REL_FIELD_NAMES, out.rels)
    /\ UNCHANGED <<expand_ranges, range_expansion_limit, dcfLine,
                   currentChunkType, chunkInfo, currentValues, myItems, _parsed,
                   _items, _relations, chunkLines, vsChunks, blankLines,
                   attachedValues>>
    /\ UNCHANGED <<dcf, plan, chunkRest, currentRecordName, currentRecordLabel, currentRecordType,
                   currentLevelName, currentLevelLabel, currentSurveyDecChar,
                   currentSurveyZeroFill, skippingChunk, currentlyParsing,
                   currentIds, myRecords, myLevels, myRelations, itemObj,
                   chunkObj, _parsed_lines, printed, exception, surveys>>
    /\ UNCHANGED <<relVars, datVars, dbVars>>

\* write() with either value of its parameter
DcfWrite == \E fme_compatible \in BOOLEAN : Write(fme_compatible)

DcfInit == ParseCalled({MinimalDcf, FullDcf}, MaxEdits)

DcfNext ==
    \/ DcfTagLine
    \/ DcfBlankLine
    \/ DcfKeyValueLine
    \/ DcfEndOfFile
    \/ DcfWrite

SpecDCF == DcfInit /\ [][DcfNext]_vars

\* run_processing.py, lines 78-85
MaxSurveys == 3    \* DCF files of one run()

\* Line 85: parser.write()
RunWrite == dcfPc = "parsed" /\ Write(TRUE)

\* Lines 80-84: the next DCF file: a new parser, and parse() is called.
RunNextFile ==
    /\ dcfPc = "written"
    /\ surveys + 1 < MaxSurveys
    /\ surveys' = surveys + 1
    /\ dcf' = <<>>
    /\ plan' \in {Plan(f, 0) : f \in {MinimalDcf, FullDcf}}
    /\ chunkRest' = <<>>
    /\ NewParser
    /\ UNCHANGED <<expand_ranges, range_expansion_limit, chunkLines, vsChunks,
                   attachedValues, MAIN_FIELD_NAMES>>
    /\ UNCHANGED <<relCall, relReturn, relRaised, scriptPos, scriptReturns>>
    /\ UNCHANGED <<datVars, dbVars>>

RunInit == ParseCalled({MinimalDcf, FullDcf}, 0)

RunNext ==
    \/ DcfTagLine
    \/ DcfBlankLine
    \/ DcfKeyValueLine
    \/ DcfEndOfFile
    \/ RunWrite
    \/ RunNextFile

SpecRun == RunInit /\ [][RunNext]_vars

(***************************************************************************)
(* SpecDB: the warehouse. Names, labels and file codes are sequences of    *)
(* one-character strings; survey ids, record names and data values are     *)
(* strings, of which the helpers only take the length.                     *)
(***************************************************************************)
UpperLetters ==
    <<"A", "B", "C", "D", "E", "F", "G", "H", "I", "J", "K", "L", "M",
      "N", "O", "P", "Q", "R", "S", "T", "U", "V", "W", "X", "Y", "Z">>
LowerLetters ==
    <<"a", "b", "c", "d", "e", "f", "g", "h", "i", "j", "k", "l", "m",
      "n", "o", "p", "q", "r", "s", "t", "u", "v", "w", "x", "y", "z">>

\* str.lower() and lower() of SQL, and the case folding of ILIKE
LowerChar(c) ==
    IF \E i \in DOMAIN UpperLetters : UpperLetters[i] = c
    THEN LowerLetters[CHOOSE i \in DOMAIN UpperLetters : UpperLetters[i] = c]
    ELSE c
Lower(cs) == [i \in 1..Len(cs) |-> LowerChar(cs[i])]

\* sub in cs
Contains(cs, sub) ==
    \E i \in 0..(Len(cs) - Len(sub)) : SubSeq(cs, i + 1, i + Len(sub)) = sub

\* filecode ILIKE '%<ft>%'
LikeAnywhere(filecode, ft) == Contains(Lower(filecode), Lower(ft))

\* filecode ILIKE '__<ft>__'
LikeThirdFourth(filecode, ft) ==
    /\ Len(filecode) = Len(ft) + 4
    /\ Lower(SubSeq(filecode, 3, Len(ft) + 2)) = Lower(ft)

\* The largest element of a non-empty set of numbers: MAX() of SQL, max().
MaxOf(S) == CHOOSE x \in S : \A y \in S : y <= x

\* The rows of a sequence, as a bag.
RECURSIVE SeqBag(_)
SeqBag(rows) ==
    IF rows = <<>> THEN EmptyBag
    ELSE SeqBag(SubSeq(rows, 1, Len(rows) - 1)) (+) SetToBag({rows[Len(rows)]})

\* The orders in which a query without ORDER BY may return the rows S.
Orders(S) ==
    {f \in [1..Cardinality(S) -> S] :
        \A i, j \in 1..Cardinality(S) : i # j => f[i] # f[j]}

(***************************************************************************)
(* The metadata files and the data files of the model                      *)
(***************************************************************************)
CASEID == <<"C", "A", "S", "E", "I", "D">>
BIDX == <<"B", "I", "D", "X">>
V001 == <<"V", "0", "0", "1">>
V001_lower == <<"v", "0", "0", "1">>
V002 == <<"V", "0", "0", "2">>
S101 == <<"S", "1", "0", "1">>

Label_Women == <<"W", "o", "m", "e", "n">>
Label_CS == <<"C", "S", ":", " ", "B">>
Label_CountrySpecific ==
    <<"C", "o", "u", "n", "t", "r", "y", " ",
      "S", "p", "e", "c", "i", "f", "i", "c">>

CMIR71 == <<"C", "M", "I", "R", "7", "1">>
CMMR71 == <<"C", "M", "M", "R", "7", "1">>
KEIR72 == <<"K", "E", "I", "R", "7", "2">>
IAIR71 == <<"I", "A", "I", "R", "7", "1">>
MRIR71 == <<"M", "R", "I", "R", "7", "1">>

\* A row of a FlatRecordSpec csv: the columns that the helpers look at.
SpecRow(recordname, recordlabel, name, start, len) ==
    [recordname |-> recordname, recordlabel |-> recordlabel, name |-> name,
     start |-> start, len |-> len]

\* A row of a FlatValuesSpec csv.
ValueRow(col_name, value, value_desc) ==
    [col_name |-> col_name, value |-> value, value_desc |-> value_desc]

\* <surveyid>.<code>.<kind>.csv: every row has FileCode <surveyid>.<code>.
\* Survey 101, women: a plain record and a country-specific one, in which a
\* field that is no index lies between the two index fields.
Women101 ==
    [surveyid |-> "101", code |-> CMIR71, kind |-> "FlatRecordSpec",
     rows |-> << SpecRow("REC01", Label_Women, CASEID, 1, 3),
                 SpecRow("REC01", Label_Women, V001, 4, 1),
                 SpecRow("REC91", Label_CS, CASEID, 1, 3),
                 SpecRow("REC91", Label_CS, S101, 4, 1),
                 SpecRow("REC91", Label_CS, BIDX, 5, 1) >>]

\* Survey 102: V001 is wider and V002 is new.
Women102 ==
    [surveyid |-> "102", code |-> KEIR72, kind |-> "FlatRecordSpec",
     rows |-> << SpecRow("REC01", Label_Women, CASEID, 1, 3),
                 SpecRow("REC01", Label_Women, V001, 4, 2),
                 SpecRow("REC01", Label_Women, V002, 6, 1) >>]

\* Survey 101, men: one row, and a name in lower case.
Men101 ==
    [surveyid |-> "101", code |-> CMMR71, kind |-> "FlatRecordSpec",
     rows |-> << SpecRow("REC01", Label_Women, V001_lower, 4, 1) >>]

\* Survey 103: a record whose label is the words Country Specific.
Women103 ==
    [surveyid |-> "103", code |-> IAIR71, kind |-> "FlatRecordSpec",
     rows |-> << SpecRow("REC95", Label_CountrySpecific, CASEID, 1, 3) >>]

\* Survey 101, women: one value.
Values101 ==
    [surveyid |-> "101", code |-> CMIR71, kind |-> "FlatValuesSpec",
     rows |-> << ValueRow(V001, <<"1">>, <<"U">>) >>]

\* Survey 102: numbers only in the value column, one of them of two digits
\* with a leading zero.
Values102 ==
    [surveyid |-> "102", code |-> KEIR72, kind |-> "FlatValuesSpec",
     rows |-> << ValueRow(V001, <<"0", "7">>, <<"U">>),
                 ValueRow(V001, <<"1", "2">>, <<"R">>) >>]

\* Survey 104, women, of the country with the code MR: one value, with the
\* longest description of the model.
Values104 ==
    [surveyid |-> "104", code |-> MRIR71, kind |-> "FlatValuesSpec",
     rows |-> << ValueRow(V001, <<"1">>, <<"U", "n">>) >>]

TableFiles == {Women101, Women102, Men101, Women103}
ValuesFiles == {Values101, Values102, Values104}
MetadataFiles == TableFiles \cup ValuesFiles

\* <surveyid>.<code>.<table>.csv, as parse_dat_file writes it.
DataREC01 ==
    [surveyid |-> "101", code |-> CMIR71, table |-> "REC01",
     header |-> <<CASEID, V001>>,
     rows |-> << <<"  1", "2">> >>]

DataREC91 ==
    [surveyid |-> "101", code |-> CMIR71, table |-> "REC91",
     header |-> <<CASEID, S101, BIDX>>,
     rows |-> << <<"  1", "007", "1">> >>]

DataREC01_102 ==
    [surveyid |-> "102", code |-> KEIR72, table |-> "REC01",
     header |-> <<CASEID, V001, V002>>,
     rows |-> << <<"  2", "07", "1">> >>]

DataFiles == {DataREC01, DataREC91, DataREC01_102}

DataTableNames == {"REC01", "REC91"}

\* The file types that the callers ask for.
FileTypes == {<<"i", "r">>, <<"m", "r">>}
SurveyIds == {"101", "102"}

\* The surveys that the callers of SurveyMetadataHelper ask for.
CatalogSurveyIds == SurveyIds \cup {"104"}

MaxLoads == 2       \* calls of one session that load a file

(***************************************************************************)
(* lib03_Update_Metadata.py                                                *)
(***************************************************************************)
\* Lines 14-22
parse_survey_info(f) ==
    [surveyid |-> f.surveyid,
     loc |-> Lower(PySlice(f.code, 0, 2)),
     filetype |-> Lower(PySlice(f.code, 2, 4)),
     version |-> PySlice(f.code, 4, Len(f.code))]

\* Lines 175-177
_file_is_cols_or_vals(f) == IF f.kind = "FlatRecordSpec" THEN "COLS" ELSE "VALS"

\* The warehouse and the helpers of the session, as one record; raised,
\* printed and ret are those of the call that is being made. Of what a call
\* prints, the record keeps what a dry run prints in place of a statement.
Db ==
    [tablespec |-> tablespec, valuespec |-> valuespec,
     specWidths |-> specWidths, dataTables |-> dataTables,
     indices |-> indices,
     _known_tables |-> _known_tables, _modified_tables |-> _modified_tables,
     _verified_tables |-> _verified_tables, _json_tables |-> _json_tables,
     raised |-> "", printed |-> {}, ret |-> None]

DbBind(w) ==
    /\ tablespec' = w.tablespec
    /\ valuespec' = w.valuespec
    /\ specWidths' = w.specWidths
    /\ dataTables' = w.dataTables
    /\ indices' = w.indices
    /\ _known_tables' = w._known_tables
    /\ _modified_tables' = w._modified_tables
    /\ _verified_tables' = w._verified_tables
    /\ _json_tables' = w._json_tables
    /\ dbRaised' = w.raised
    /\ dbPrinted' = w.printed
    /\ dbReturn' = w.ret

DbRaise(w, e) == [w EXCEPT !.raised = e]
DbPrint(w, msg) == [w EXCEPT !.printed = @ \cup {msg}]

\* Lines 143-153: _get_any_in_db on the rows of a catalog table
_get_any_in_db(rows, surveyid, file_type) ==
    LET n == BagCardinality(
                 [r \in {x \in BagToSet(rows) :
                            /\ x.surveyid = surveyid
                            /\ LikeThirdFourth(x.filecode, file_type)}
                    |-> CopiesIn(r, rows)])
    IN  IF n > 1 THEN TRUE ELSE FALSE

\* Lines 192-203: the dataframe of a FlatRecordSpec csv, with the columns
\* that go to the database. itemtype, recordtypevalue, label and fmetype
\* take no part in what the helpers decide and are left out.
TableFrame(f) ==
    [k \in 1..Len(f.rows) |->
        [surveyid |-> f.surveyid, filecode |-> f.code,
         recordname |-> f.rows[k].recordname,
         recordlabel |-> f.rows[k].recordlabel,
         name |-> f.rows[k].name,
         start |-> f.rows[k].start, len |-> f.rows[k].len]]

Digits == {"0", "1", "2", "3", "4", "5", "6", "7", "8", "9"}

\* read_csv reads a column as int64 when every cell of it is a number.
IsNumber(v) == v # <<>> /\ \A i \in 1..Len(v) : v[i] \in Digits

\* A number has no leading zeros when it is written again.
RECURSIVE IntText(_)
IntText(v) == IF Len(v) > 1 /\ Head(v) = "0" THEN IntText(Tail(v)) ELSE v

\* Lines 220-229: the dataframe of a FlatValuesSpec csv. value_type is left
\* out.
ValuesFrame(f) ==
    LET numbers == \A k \in 1..Len(f.rows) : IsNumber(f.rows[k].value)
    IN  [k \in 1..Len(f.rows) |->
            [surveyid |-> f.surveyid, filecode |-> f.code,
             col_name |-> f.rows[k].col_name,
             value |-> IF numbers THEN IntText(f.rows[k].value)
                       ELSE f.rows[k].value,
             value_desc |-> f.rows[k].value_desc]]

\* The varchar(n) columns of the two catalog tables.
TablespecStrings == {"surveyid", "filecode", "recordname", "recordlabel", "name"}
ValuespecStrings == {"surveyid", "filecode", "col_name", "value", "value_desc"}

\* Line 263: select_dtypes(include=['object']): the columns of strings. The
\* value column of a values file that holds numbers only is int64.
ObjectColumns(f) ==
    IF f.kind = "FlatRecordSpec" THEN TablespecStrings
    ELSE IF \A k \in 1..Len(f.rows) : IsNumber(f.rows[k].value)
    THEN ValuespecStrings \ {"value"}
    ELSE ValuespecStrings

\* Line 264: df[col].str.len().max()
IncomingLength(frame, col) == MaxOf({Len(frame[k][col]) : k \in 1..Len(frame)})

\* Lines 269-292 with dry_run off: the width of the column after the call.
WidthAfter_Incoming(current, req_width) == req_width

WidthAfter(current, req_width) ==
    IF req_width > current THEN req_width ELSE current

\* Lines 253-292: _check_column_widths_from_df
_check_column_widths_from_df(w, frame, objects, table_name) ==
    LET widen == {col \in objects :
                     IncomingLength(frame, col) > w.specWidths[table_name][col]}
    IN  IF dry_run
        THEN [w EXCEPT !.printed =
                 @ \cup {<<"Column would be widened", table_name, col,
                           IncomingLength(frame, col)>> : col \in widen}]
        ELSE [w EXCEPT !.specWidths[table_name] =
                 [col \in DOMAIN @ |->
                     IF col \in objects
                     THEN WidthAfter(@[col], IncomingLength(frame, col))
                     ELSE @[col]]]

\* INSERT and COPY refuse a row with a value longer than its varchar(n).
Fits(frame, widths) ==
    \A k \in 1..Len(frame) : \A col \in DOMAIN widths :
        Len(frame[k][col]) <= widths[col]

\* Lines 187-212: load_new_table_file; lines 215-250: load_new_values_file
load_new_metadata_frame(w, f, frame, table_name) ==
    LET u == _check_column_widths_from_df(w, frame, ObjectColumns(f), table_name)
    IN  IF dry_run
        THEN DbPrint(u, <<"Would insert", table_name, f.surveyid, f.code, f.kind>>)
        ELSE IF ~Fits(frame, u.specWidths[table_name])
        THEN DbRaise(u, "DataError")
        ELSE [u EXCEPT ![table_name] = @ (+) SeqBag(frame)]

load_new_table_file(w, f) ==
    load_new_metadata_frame(w, f, TableFrame(f), "tablespec")

load_new_values_file(w, f) ==
    load_new_metadata_frame(w, f, ValuesFrame(f), "valuespec")

\* Lines 330-342: _delete_metadata_rows_for_svy_filetype
_delete_metadata_rows_for_svy_filetype(w, surveyid, filetype, table_name) ==
    IF dry_run
    THEN DbPrint(w, <<"Would drop", filetype, surveyid, table_name>>)
    ELSE LET keep == {r \in BagToSet(w[table_name]) :
                         ~(r.surveyid = surveyid
                           /\ LikeAnywhere(r.filecode, filetype))}
         IN  [w EXCEPT ![table_name] = [r \in keep |-> CopiesIn(r, w[table_name])]]

\* Lines 295-315: drop_and_reload. Line 299 asks the helper for
\* file_is_cols_or_vals, and the class has _file_is_cols_or_vals only.
metadata_drop_and_reload(w, f) == DbRaise(w, "AttributeError")

(***************************************************************************)
(* lib04_Update_Table_Data.py                                              *)
(***************************************************************************)
\* Line 12
_MAX_COLUMN_THRESHOLD == 500

surveyid_name == <<"s", "u", "r", "v", "e", "y", "i", "d">>
data_name == <<"d", "a", "t", "a">>
allidx_name == <<"a", "l", "l", "i", "d", "x">>
twoidx_name == <<"t", "w", "o", "i", "d", "x">>

\* Lines 15-23
parse_table_name(f) ==
    [surveyid |-> f.surveyid,
     loc |-> Lower(PySlice(f.code, 0, 2)),
     filetype |-> Lower(PySlice(f.code, 2, 4)),
     version |-> PySlice(f.code, 4, Len(f.code)),
     tablename |-> f.table]

\* A column of a data table: character varying(width) or jsonb.
Varchar(width) == [type |-> "varchar", width |-> width]
Jsonb == [type |-> "jsonb", width |-> 0]

\* Lines 45-51: the data tables that have a jsonb column
JsonTablesOf(tables) ==
    {t \in DOMAIN tables :
        \E c \in DOMAIN tables[t].cols : tables[t].cols[c].type = "jsonb"}

\* Lines 54-66
_does_data_table_exist(w, table_name) ==
    IF table_name \in w._known_tables THEN [w EXCEPT !.ret = TRUE]
    ELSE IF table_name \in DOMAIN w.dataTables
    THEN [w EXCEPT !._known_tables = @ \cup {table_name}, !.ret = TRUE]
    ELSE [w EXCEPT !.ret = FALSE]

\* Lines 124-137
_col_shld_be_firstclass(col_name) ==
    LET _c == Lower(col_name)
    IN  \/ Contains(_c, <<"i", "d", "x">>)
        \/ IsPrefix(<<"i", "x">>, _c)
        \/ _c \in {surveyid_name, <<"c", "a", "s", "e", "i", "d">>,
                   <<"m", "c", "a", "s", "e", "i", "d">>, <<"h", "h", "i", "d">>}

\* lower(recordlabel) LIKE 'cs:%'
LikeCs(recordlabel) == IsPrefix(<<"c", "s", ":">>, Lower(recordlabel))

\* lower(recordlabel) LIKE 'country specific'
LikeCountrySpecific(recordlabel) ==
    Lower(recordlabel) = Lower(Label_CountrySpecific)

\* Lines 140-152: in the WHERE clause AND binds before OR.
_table_should_be_json(rows, table_name, n_cols) ==
    IF n_cols > _MAX_COLUMN_THRESHOLD THEN TRUE
    ELSE \E r \in BagToSet(rows) :
            \/ r.recordname = table_name /\ LikeCs(r.recordlabel)
            \/ LikeCountrySpecific(r.recordlabel)

\* Groups with the len of some row in place of MAX(len).
Groups_MinLen(rows, table_name) ==
    LET mine == {r \in BagToSet(rows) : r.recordname = table_name}
    IN  {[name |-> Lower(n), itemtype |-> "Item",
          length |-> CHOOSE m \in {r.len : r \in {x \in mine : x.name = n}} :
                        \A k \in {r.len : r \in {x \in mine : x.name = n}} : m <= k,
          start |-> MaxOf({r.start : r \in {x \in mine : x.name = n}}),
          spelled |-> n] : n \in {r.name : r \in mine}}

\* The rows of WHERE recordname = '<table_name>' GROUP BY name: one group for
\* each spelling of a name, with lower(name), MAX(len) and MAX(start).
Groups(rows, table_name) ==
    LET mine == {r \in BagToSet(rows) : r.recordname = table_name}
    IN  {[name |-> Lower(n), itemtype |-> "Item",
          length |-> MaxOf({r.len : r \in {x \in mine : x.name = n}}),
          start |-> MaxOf({r.start : r \in {x \in mine : x.name = n}}),
          spelled |-> n] : n \in {r.name : r \in mine}}

\* ORDER BY start: the orders a query may return the groups in.
OrdersByStart(groups) ==
    {f \in Orders(groups) :
        \A i, j \in 1..Len(f) : i < j => f[i].start <= f[j].start}

\* A dataframe: rows that each have a label of the index.
Frame(rows) == [k \in 1..Len(rows) |-> [label |-> k - 1, row |-> rows[k]]]

\* df[df[...].apply(test)]: the rows keep their labels.
FrameFilter(df, Test(_)) == SelectSeq(df, LAMBDA e : Test(e.row))

\* df.loc[label] = row: the row that has the label is replaced; a row is
\* added only when no row has it.
FrameSetLoc(df, label, row) ==
    IF \E k \in 1..Len(df) : df[k].label = label
    THEN [k \in 1..Len(df) |->
             IF df[k].label = label THEN [label |-> label, row |-> row]
             ELSE df[k]]
    ELSE Append(df, [label |-> label, row |-> row])

\* df.sort_index(): the labels of a dataframe differ from each other.
RECURSIVE FrameSortIndex(_)
FrameSortIndex(df) ==
    IF df = <<>> THEN <<>>
    ELSE LET k == CHOOSE i \in 1..Len(df) :
                      \A j \in 1..Len(df) : df[i].label <= df[j].label
         IN  <<df[k]>> \o FrameSortIndex(SubSeq(df, 1, k - 1)
                                           \o SubSeq(df, k + 1, Len(df)))

FrameRows(df) == [k \in 1..Len(df) |-> df[k].row]

FirstClassRow(row) == _col_shld_be_firstclass(row.name)

\* Lines 155-200: _get_column_clauses, for the order in which the query
\* returned the groups: the clauses, as columns, and is_json.
_get_column_clauses(rows, table_name, whats_needed) ==
    LET is_json == _table_should_be_json(rows, table_name, Len(whats_needed))
        df == Frame(whats_needed)
        kept == FrameFilter(df, FirstClassRow)
        needed == IF is_json
                  THEN FrameSetLoc(kept, Len(kept),
                                   [name |-> data_name, itemtype |-> "JSON",
                                    length |-> 0, start |-> 99999999])
                  ELSE df
        first == FrameSetLoc(needed, -1,
                             [name |-> surveyid_name, itemtype |-> "Item",
                              length |-> 3, start |-> 0])
        sorted == FrameRows(FrameSortIndex(first))
    IN  [clauses |-> [k \in 1..Len(sorted) |->
                         [name |-> sorted[k].name,
                          col |-> IF sorted[k].itemtype = "JSON" THEN Jsonb
                                  ELSE Varchar(sorted[k].length)]],
         is_json |-> is_json]

\* CREATE TABLE refuses a table that exists, two columns of one name and a
\* varchar(0).
CreateRefused(clauses) ==
    \/ \E i, j \in 1..Len(clauses) : i # j /\ clauses[i].name = clauses[j].name
    \/ \E i \in 1..Len(clauses) :
          clauses[i].col.type = "varchar" /\ clauses[i].col.width < 1

\* Lines 203-271 with replace_existing off: the indexes that are added, each
\* as <<what it is named after, table>>; its list of columns is not kept.
_create_or_replace_indices(w, table_name) ==
    LET idx_fields == {c \in DOMAIN w.dataTables[table_name].cols :
                          _col_shld_be_firstclass(c)}
        wanted == {<<c, table_name>> : c \in idx_fields}
                  \cup (IF Cardinality(idx_fields) > 1
                        THEN {<<allidx_name, table_name>>} ELSE {})
                  \cup (IF Cardinality(idx_fields) > 2
                        THEN {<<twoidx_name, table_name>>} ELSE {})
    IN  [w EXCEPT !.indices = @ \cup wanted]

\* Lines 85-121: create_data_table
create_data_table(w, table_name, whats_needed) ==
    LET cc == _get_column_clauses(w.tablespec, table_name, whats_needed)
        cols == [n \in {cc.clauses[k].name : k \in 1..Len(cc.clauses)} |->
                    (CHOOSE c \in {cc.clauses[k] : k \in 1..Len(cc.clauses)} :
                        c.name = n).col]
    IN  IF dry_run
        THEN DbPrint(w, <<"Would create", table_name, cc>>)
        ELSE IF table_name \in DOMAIN w.dataTables \/ CreateRefused(cc.clauses)
             THEN DbRaise(w, "ProgrammingError")
             ELSE _create_or_replace_indices(
                          [w EXCEPT !.dataTables =
                                       Put(@, table_name,
                                           [cols |-> cols, rows |-> EmptyBag]),
                                    !._json_tables =
                                       IF cc.is_json THEN @ \cup {table_name}
                                       ELSE @],
                          table_name)

\* ALTER TABLE ... ALTER COLUMN ... TYPE character varying(n) refuses an n
\* that a value of the column is longer than.
AlterRefused(table, column_name, width) ==
    \E r \in BagToSet(table.rows) :
        column_name \in DOMAIN r /\ Len(r[column_name]) > width

\* Lines 282-291: _widen_column
_widen_column(w, table_name, column_name, req_width) ==
    IF dry_run
    THEN DbPrint(w, <<"would be widened", table_name, column_name, req_width>>)
    ELSE IF AlterRefused(w.dataTables[table_name], column_name, req_width)
         THEN DbRaise(w, "DataError")
         ELSE [w EXCEPT !.dataTables[table_name].cols[column_name] =
                           Varchar(req_width)]

\* information_schema.columns: the columns of a table, none if there is no
\* such table.
TableColumns(tables, table_name) ==
    IF table_name \in DOMAIN tables THEN tables[table_name].cols ELSE <<>>

\* Lines 308-325: length_specs, and of it the rows to widen. The inner join
\* leaves out the groups that have no column; a jsonb column has no length.
ToWiden(w, table_name) ==
    LET cols == TableColumns(w.dataTables, table_name)
    IN  {g \in Groups(w.tablespec, table_name) :
            /\ g.name \in DOMAIN cols
            /\ g.length > (IF cols[g.name].type = "varchar"
                           THEN cols[g.name].width ELSE 999999)}

\* Lines 326-328, for the order of the rows of to_widen
RECURSIVE WidenAll(_, _, _)
WidenAll(w, table_name, to_widen) ==
    IF to_widen = <<>> \/ w.raised # "" THEN w
    ELSE LET u == _widen_column(w, table_name, Head(to_widen).name,
                                Head(to_widen).length)
         IN  IF u.raised # "" THEN u
             ELSE WidenAll([u EXCEPT !._modified_tables = @ \cup {table_name}],
                           table_name, Tail(to_widen))

\* Lines 331-342: _add_varchar_column. ADD COLUMN refuses a table that does
\* not exist and a column that the table has.
_add_varchar_column(w, table_name, column_name, req_width) ==
    LET u == [w EXCEPT !._modified_tables = @ \cup {table_name}]
    IN  IF dry_run
        THEN DbPrint(u, <<"would be added", table_name, Lower(column_name),
                          req_width>>)
        ELSE IF \/ table_name \notin DOMAIN u.dataTables
                \/ Lower(column_name) \in DOMAIN u.dataTables[table_name].cols
             THEN DbRaise(u, "ProgrammingError")
             ELSE [u EXCEPT !.dataTables[table_name].cols =
                               Put(@, Lower(column_name), Varchar(req_width))]

\* Lines 380-381, for the rows of data_cols_not_present
RECURSIVE AddAll(_, _, _)
AddAll(w, table_name, not_present) ==
    IF not_present = <<>> \/ w.raised # "" THEN w
    ELSE AddAll(_add_varchar_column(w, table_name, Head(not_present).name,
                                    Head(not_present).length),
                table_name, Tail(not_present))

\* Lines 350-378: data_cols_not_present, for the order in which the query
\* returned the groups
NotPresent(w, table_name, data_cols_needed) ==
    LET df == Frame(data_cols_needed)
        kept == FrameFilter(df, FirstClassRow)
        needed == IF table_name \in w._json_tables
                  THEN FrameSetLoc(kept, Len(kept),
                                   [name |-> data_name, length |-> 99999999])
                  ELSE df
    IN  SelectSeq(FrameRows(needed),
                  LAMBDA r : r.name \notin DOMAIN TableColumns(w.dataTables,
                                                            table_name))

\* Lines 345-383
_ensure_columns_presence(w, table_name, data_cols_needed) ==
    AddAll(w, table_name, NotPresent(w, table_name, data_cols_needed))

\* Lines 294-328, for the order in which the query returned the rows of
\* to_widen; the widths of the columns are read once, by the query.
_ensure_column_widths(w, table_name, to_widen) ==
    WidenAll(w, table_name, to_widen)

\* Lines 274-279
check_cols_against_metadata(w, table_name, data_cols_needed, to_widen) ==
    LET u == _ensure_columns_presence(w, table_name, data_cols_needed)
    IN  IF u.raised # "" THEN u
        ELSE _ensure_column_widths(u, table_name, to_widen)

\* The orders in which the second query of check_cols_against_metadata may
\* return the rows to widen, when the first one returned data_cols_needed.
WidenOrders(w, table_name, data_cols_needed) ==
    Orders(ToWiden(_ensure_columns_presence(w, table_name, data_cols_needed),
                   table_name))

\* Lines 69-82
prepare_db_for_file(w, table_name, whats_needed, data_cols_needed, to_widen) ==
    IF table_name \in w._verified_tables THEN w
    ELSE LET e == _does_data_table_exist(w, table_name)
             u == [e EXCEPT !.ret = None]
             v == IF ~e.ret THEN create_data_table(u, table_name, whats_needed)
                  ELSE check_cols_against_metadata(u, table_name,
                                                   data_cols_needed, to_widen)
         IN  IF v.raised # "" THEN v
             ELSE [v EXCEPT !._verified_tables = @ \cup {table_name}]

\* The columns and the rows that load_table sends, lines 409-411 for a
\* standard table and lines 455-475 for a JSON table: the fields that are no
\* index are packed into data.
Sent(f, is_json) ==
    LET lowered == [k \in 1..Len(f.header) |-> Lower(f.header[k])]
        names == {lowered[k] : k \in 1..Len(lowered)} \cup {surveyid_name}
        Cell(row, n) == IF n = surveyid_name THEN f.surveyid
                        ELSE row[CHOOSE k \in 1..Len(lowered) : lowered[k] = n]
        first == {n \in names : _col_shld_be_firstclass(n)}
    IN  [k \in 1..Len(f.rows) |->
            IF is_json
            THEN [n \in first \cup {data_name} |->
                     IF n = data_name
                     THEN [m \in names \ first |-> Cell(f.rows[k], m)]
                     ELSE Cell(f.rows[k], n)]
            ELSE [n \in names |-> Cell(f.rows[k], n)]]

\* COPY refuses a table or a column that does not exist and a value longer
\* than its varchar(n).
CopyRefused(tables, table_name, sent) ==
    \/ table_name \notin DOMAIN tables
    \/ \E k \in 1..Len(sent) : \E n \in DOMAIN sent[k] :
          \/ n \notin DOMAIN tables[table_name].cols
          \/ /\ tables[table_name].cols[n].type = "varchar"
             /\ Len(sent[k][n]) > tables[table_name].cols[n].width

\* Lines 386-506 with use_bulk_copy on
load_table(w, f) ==
    LET table_name == parse_table_name(f).tablename
        is_json == table_name \in w._json_tables
        sent == Sent(f, is_json)
    IN  IF dry_run
        THEN DbPrint(w, <<"Would insert data", f.surveyid, table_name, is_json>>)
        ELSE IF CopyRefused(w.dataTables, table_name, sent)
             THEN DbRaise(w, "DatabaseError")
             ELSE [w EXCEPT !.dataTables[table_name].rows = @ (+) SeqBag(sent)]

\* delete_table_entries_for_survey without the condition on surveyid.
delete_table_entries_for_survey_All(w, surveyid, table_name) ==
    IF dry_run
    THEN DbPrint(w, <<"Would drop all data rows", surveyid, table_name>>)
    ELSE IF table_name \notin DOMAIN w.dataTables
         THEN DbRaise(w, "NoSuchTableError")
         ELSE [w EXCEPT !.dataTables[table_name].rows = EmptyBag]

\* Lines 531-541: sa.Table(..., autoload=True) raises for a table that does
\* not exist.
delete_table_entries_for_survey(w, surveyid, table_name) ==
    IF dry_run
    THEN DbPrint(w, <<"Would drop all data rows", surveyid, table_name>>)
    ELSE IF table_name \notin DOMAIN w.dataTables
         THEN DbRaise(w, "NoSuchTableError")
         ELSE [w EXCEPT !.dataTables[table_name].rows =
                  [r \in {x \in BagToSet(@) : x[surveyid_name] # surveyid}
                      |-> CopiesIn(r, @)]]

\* Lines 509-514
data_drop_and_reload(w, f) ==
    LET u == delete_table_entries_for_survey(w, parse_table_name(f).surveyid,
                                             parse_table_name(f).tablename)
    IN  IF u.raised # "" THEN u ELSE load_table(u, f)

(***************************************************************************)
(* SpecMeta, SpecData: the calls of one session, in any order              *)
(***************************************************************************)
\* Both helpers are constructed, on a warehouse with empty catalog tables,
\* whose varchar(n) columns all have one of the given widths, and no data
\* table.
DbInit(widths) ==
    /\ DatIdle
    /\ RelIdle
    /\ VsIdle
    /\ DcfIdle
    /\ dry_run \in BOOLEAN
    /\ tablespec = EmptyBag
    /\ valuespec = EmptyBag
    /\ \E n \in widths :
          specWidths = [tablespec |-> [c \in TablespecStrings |-> n],
                        valuespec |-> [c \in ValuespecStrings |-> n]]
    /\ dataTables = <<>>
    /\ indices = {}
    /\ _known_tables = {}
    /\ _modified_tables = {}
    /\ _verified_tables = {}
    /\ _json_tables = {}
    /\ dbCall = <<"__init__">>
    /\ dbReturn = None
    /\ dbRaised = ""
    /\ dbPrinted = {}
    /\ loads = 0
    /\ par = <<>>

\* A call that loads a file.
Loads(call, w) ==
    /\ loads < MaxLoads
    /\ loads' = loads + 1
    /\ dbCall' = call
    /\ DbBind(w)
    /\ UNCHANGED <<dry_run, par>>

\* A call that loads no file.
Calls(call, w) ==
    /\ dbCall' = call
    /\ DbBind(w)
    /\ UNCHANGED <<dry_run, loads, par>>

\* lib03 lines 125-140
GetAnyInDb ==
    \E table \in {"tablespec", "valuespec"}, s \in CatalogSurveyIds, ft \in FileTypes :
        Calls(<<"get_any_in_db", table, s, ft>>,
              [Db EXCEPT !.ret = _get_any_in_db(Db[table], s, ft)])

LoadNewTableFile ==
    \E f \in TableFiles :
        Loads(<<"load_new_table_file", f>>, load_new_table_file(Db, f))

LoadNewValuesFile ==
    \E f \in ValuesFiles :
        Loads(<<"load_new_values_file", f>>, load_new_values_file(Db, f))

MetadataDropAndReload ==
    \E f \in MetadataFiles :
        Calls(<<"drop_and_reload", f>>, metadata_drop_and_reload(Db, f))

\* lib03 lines 318-321
DeleteTableColEntries ==
    \E s \in CatalogSurveyIds, ft \in FileTypes :
        Calls(<<"delete_table_col_entries_for_svy_filetype", s, ft>>,
              _delete_metadata_rows_for_svy_filetype(Db, s, ft, "tablespec"))

\* lib03 lines 324-327
DeleteValueEntries ==
    \E s \in CatalogSurveyIds, ft \in FileTypes :
        Calls(<<"delete_value_entries_for_svy_filetype", s, ft>>,
              _delete_metadata_rows_for_svy_filetype(Db, s, ft, "valuespec"))

\* lib04 lines 26-42: a new TableDataHelper on the warehouse as it is, for a
\* dry run or not
NewTableDataHelper ==
    \E is_dry_run \in BOOLEAN :
        /\ dbCall' = <<"TableDataHelper">>
        /\ dry_run' = is_dry_run
        /\ DbBind([Db EXCEPT !._json_tables = JsonTablesOf(dataTables),
                             !._known_tables = {},
                             !._modified_tables = {},
                             !._verified_tables = {}])
        /\ UNCHANGED <<loads, par>>

\* Of the three queries of prepare_db_for_file, a call makes the first one
\* for a table that does not exist and the other two for one that does.
PrepareDbForFile ==
    \E t \in DataTableNames :
        IF t \in _verified_tables
        THEN Calls(<<"prepare_db_for_file", t>>,
                   prepare_db_for_file(Db, t, <<>>, <<>>, <<>>))
        ELSE IF _does_data_table_exist(Db, t).ret
        THEN \E data_cols_needed \in Orders(Groups(tablespec, t)) :
                \E to_widen \in WidenOrders(Db, t, data_cols_needed) :
                    Calls(<<"prepare_db_for_file", t>>,
                          prepare_db_for_file(Db, t, <<>>, data_cols_needed,
                                              to_widen))
        ELSE \E whats_needed \in OrdersByStart(Groups(tablespec, t)) :
                Calls(<<"prepare_db_for_file", t>>,
                      prepare_db_for_file(Db, t, whats_needed, <<>>, <<>>))

LoadTable ==
    \E f \in DataFiles : Loads(<<"load_table", f>>, load_table(Db, f))

DataDropAndReload ==
    \E f \in DataFiles :
        Loads(<<"data drop_and_reload", f>>, data_drop_and_reload(Db, f))

DeleteTableEntriesForSurvey ==
    \E s \in SurveyIds, t \in DataTableNames :
        Calls(<<"delete_table_entries_for_survey", s, t>>,
              delete_table_entries_for_survey(Db, s, t))

MetaNext ==
    \/ GetAnyInDb /\ UNCHANGED <<datVars, relVars, vsVars, dcfVars>>
    \/ LoadNewTableFile /\ UNCHANGED <<datVars, relVars, vsVars, dcfVars>>
    \/ LoadNewValuesFile /\ UNCHANGED <<datVars, relVars, vsVars, dcfVars>>
    \/ MetadataDropAndReload /\ UNCHANGED <<datVars, relVars, vsVars, dcfVars>>
    \/ DeleteTableColEntries /\ UNCHANGED <<datVars, relVars, vsVars, dcfVars>>
    \/ DeleteValueEntries /\ UNCHANGED <<datVars, relVars, vsVars, dcfVars>>

\* The catalog tables under the calls of a SurveyMetadataHelper.
SpecMeta == DbInit({1, 3}) /\ [][MetaNext]_vars

DataNext ==
    \/ LoadNewTableFile /\ UNCHANGED <<datVars, relVars, vsVars, dcfVars>>
    \/ NewTableDataHelper /\ UNCHANGED <<datVars, relVars, vsVars, dcfVars>>
    \/ PrepareDbForFile /\ UNCHANGED <<datVars, relVars, vsVars, dcfVars>>
    \/ LoadTable /\ UNCHANGED <<datVars, relVars, vsVars, dcfVars>>
    \/ DataDropAndReload /\ UNCHANGED <<datVars, relVars, vsVars, dcfVars>>
    \/ DeleteTableEntriesForSurvey /\ UNCHANGED <<datVars, relVars, vsVars, dcfVars>>

\* The data tables under the calls of a TableDataHelper, with the loads of
\* column definitions that fill the catalog.
SpecData == DbInit({3}) /\ [][DataNext]_vars

(***************************************************************************)
(* SpecLoad: the loads of data files into tables that exist                *)
(***************************************************************************)
\* The warehouse as DbInit leaves it, with catalog columns of width n.
EmptyDb(n) ==
    [tablespec |-> EmptyBag, valuespec |-> EmptyBag,
     specWidths |-> [tablespec |-> [c \in TablespecStrings |-> n],
                     valuespec |-> [c \in ValuespecStrings |-> n]],
     dataTables |-> <<>>, indices |-> {},
     _known_tables |-> {}, _modified_tables |-> {},
     _verified_tables |-> {}, _json_tables |-> {},
     raised |-> "", printed |-> {}, ret |-> None]

\* The warehouse after a session that was no dry run loaded the column
\* definitions of surveys 101 and 102 and prepared REC01 and REC91, the
\* queries returning the groups in the given orders.
PreparedDb(rec01, rec91) ==
    LET loaded == load_new_table_file(
                      load_new_table_file(EmptyDb(3), Women101), Women102)
    IN  create_data_table(create_data_table(loaded, "REC01", rec01),
                          "REC91", rec91)

\* A new session, no dry run either, starts on the prepared warehouse, which
\* has the rows of survey 102 in REC01 or has no rows.
LoadInit ==
    /\ DatIdle
    /\ RelIdle
    /\ VsIdle
    /\ DcfIdle
    /\ dry_run = FALSE
    /\ loads = 0
    /\ par = <<>>
    /\ dbCall = <<"__init__">>
    /\ \E with102 \in BOOLEAN :
          LET catalog == load_new_table_file(
                             load_new_table_file(EmptyDb(3), Women101),
                             Women102).tablespec
          IN  \E rec01 \in OrdersByStart(Groups(catalog, "REC01")),
                 rec91 \in OrdersByStart(Groups(catalog, "REC91")) :
                  \E w \in {PreparedDb(rec01, rec91)} :
                      \E v \in {IF with102 THEN load_table(w, DataREC01_102)
                                ELSE w} :
                          /\ tablespec = v.tablespec
                          /\ valuespec = v.valuespec
                          /\ specWidths = v.specWidths
                          /\ dataTables = v.dataTables
                          /\ indices = v.indices
                          /\ _known_tables = {}
                          /\ _modified_tables = {}
                          /\ _verified_tables = {}
                          /\ _json_tables = JsonTablesOf(v.dataTables)
                          /\ dbRaised = ""
                          /\ dbPrinted = {}
                          /\ dbReturn = None

LoadNext ==
    \/ LoadTable /\ UNCHANGED <<datVars, relVars, vsVars, dcfVars>>
    \/ DataDropAndReload /\ UNCHANGED <<datVars, relVars, vsVars, dcfVars>>
    \/ DeleteTableEntriesForSurvey /\ UNCHANGED <<datVars, relVars, vsVars, dcfVars>>
    \/ PrepareDbForFile /\ UNCHANGED <<datVars, relVars, vsVars, dcfVars>>

\* The rows of the data tables under the calls of a TableDataHelper.
SpecLoad == LoadInit /\ [][LoadNext]_vars

(***************************************************************************)
(* SpecPar: two processes load column definitions side by side             *)
(***************************************************************************)
\* The processes, each with a connection of its own, and the file that each
\* of them loads into tablespec: the files are of different surveys.
Procs == {1, 2}
ParFiles == <<Women101, Women103>>

\* The columns of strings of the dataframe, in its order: the columns of the
\* csv, then surveyid.
ParColumns == <<"filecode", "recordname", "recordlabel", "name", "surveyid">>

\* Line 264: the incoming length of the column that process p is at.
ParIncoming(p, k) == IncomingLength(TableFrame(ParFiles[p]), ParColumns[k])

ParInit ==
    /\ DatIdle
    /\ RelIdle
    /\ VsIdle
    /\ DcfIdle
    /\ dry_run = FALSE
    /\ tablespec = EmptyBag
    /\ valuespec = EmptyBag
    /\ \E n \in {1, 3} :
          specWidths = [tablespec |-> [c \in TablespecStrings |-> n],
                        valuespec |-> [c \in ValuespecStrings |-> n]]
    /\ dataTables = <<>>
    /\ indices = {}
    /\ _known_tables = {}
    /\ _modified_tables = {}
    /\ _verified_tables = {}
    /\ _json_tables = {}
    /\ dbCall = <<"load_new_table_file">>
    /\ dbReturn = None
    /\ dbRaised = ""
    /\ dbPrinted = {}
    /\ loads = 0
    /\ par = [p \in Procs |-> [pc |-> "read", col |-> 1, current |-> 0]]

ParFrame ==
    UNCHANGED <<valuespec, dataTables, indices, dry_run, _known_tables,
                _modified_tables, _verified_tables, _json_tables, dbCall,
                dbReturn, dbRaised, dbPrinted, loads>>

\* lib03 lines 273-281: the process reads the width of the column.
ParRead(p) ==
    /\ par[p].pc = "read"
    /\ par' = [par EXCEPT ![p].pc = "alter",
                          ![p].current = specWidths.tablespec[ParColumns[par[p].col]]]
    /\ UNCHANGED <<tablespec, specWidths>>
    /\ ParFrame

\* lib03 lines 282-292: the process compares the incoming length with the
\* width that it read and sends the ALTER. ALTER COLUMN ... TYPE character
\* varying(n) is refused when a row of the table has a longer value.
ParAlter(p) ==
    /\ par[p].pc = "alter"
    /\ LET k == par[p].col
           c == ParColumns[k]
           req_width == ParIncoming(p, k)
           next == IF k = Len(ParColumns)
                   THEN [par EXCEPT ![p].pc = "insert"]
                   ELSE [par EXCEPT ![p].pc = "read", ![p].col = k + 1]
       IN  IF req_width > par[p].current
           THEN IF \E r \in BagToSet(tablespec) : Len(r[c]) > req_width
                THEN /\ par' = [par EXCEPT ![p].pc = "raised"]
                     /\ UNCHANGED specWidths
                ELSE /\ specWidths' = [specWidths EXCEPT !.tablespec[c] = req_width]
                     /\ par' = next
           ELSE /\ par' = next
                /\ UNCHANGED specWidths
    /\ UNCHANGED tablespec
    /\ ParFrame

\* lib03 lines 208-212: the process inserts the rows of its file.
ParInsert(p) ==
    /\ par[p].pc = "insert"
    /\ LET frame == TableFrame(ParFiles[p])
       IN  IF Fits(frame, specWidths.tablespec)
           THEN /\ tablespec' = tablespec (+) SeqBag(frame)
                /\ par' = [par EXCEPT ![p].pc = "done"]
           ELSE /\ par' = [par EXCEPT ![p].pc = "raised"]
                /\ UNCHANGED tablespec
    /\ UNCHANGED specWidths
    /\ ParFrame

ParNext ==
    \/ \E p \in Procs : ParRead(p) /\ UNCHANGED <<datVars, relVars, vsVars, dcfVars>>
    \/ \E p \in Procs : ParAlter(p) /\ UNCHANGED <<datVars, relVars, vsVars, dcfVars>>
    \/ \E p \in Procs : ParInsert(p) /\ UNCHANGED <<datVars, relVars, vsVars, dcfVars>>

\* Two calls of load_new_table_file, of two processes, step by step.
SpecPar == ParInit /\ [][ParNext]_vars

(***************************************************************************)
(* Claims about parse_dat_file                                             *)
(***************************************************************************)
\* The characters of `line` at the 1-based columns start .. start+len-1 that
\* the line has, in order.
ColumnsOf(line, start, len) ==
    [k \in 1..Max(0, Min(len, Len(line) - start + 1)) |-> line[start + k - 1]]

\* cell is raw without its leading and trailing whitespace.
IsTrimOf(cell, raw) ==
    /\ cell = <<>> \/ (~IsSpace(cell[1]) /\ ~IsSpace(cell[Len(cell)]))
    /\ \E i \in 0..Len(raw) :
          /\ i + Len(cell) <= Len(raw)
          /\ SubSeq(raw, i + 1, i + Len(cell)) = cell
          /\ \A p \in (1..i) \cup ((i + Len(cell) + 1)..Len(raw)) : IsSpace(raw[p])

\* The lines read so far whose record type is tag.
LinesOf(tag) == SelectSeq(dat, LAMBDA l : ColumnsOf(l, specCsv.Start, specCsv.Len) = tag)

RowsOf(res, tag) == IF tag \in DOMAIN res THEN res[tag] ELSE <<>>

RECURSIVE CountRows(_, _)
CountRows(res, tags) ==
    IF tags = {} THEN 0
    ELSE LET t == CHOOSE x \in tags : TRUE
         IN  Len(res[t]) + CountRows(res, tags \ {t})

\* C1: for every line of a declared record type and every field of the record,
\* the emitted cell is the line's characters at columns Start..Start+Len-1 (as
\* many as the line has), unchanged for CASEID and HHID and with leading and
\* trailing whitespace removed for every other field.
C1_SliceTrimPolicy ==
    \A tag \in DOMAIN result :
        LET lines == LinesOf(tag)
            fields == rt_field_info(specCsv, tag)
        IN  /\ Len(result[tag]) = Len(lines)
            /\ \A j \in 1..Len(lines) :
                  /\ Len(result[tag][j]) = Len(fields)
                  /\ \A k \in 1..Len(fields) :
                        LET raw == ColumnsOf(lines[j], fields[k].Start, fields[k].Len)
                            cell == result[tag][j][k]
                        IN  IF fields[k].Name \in {"CASEID", "HHID"}
                            THEN cell = raw
                            ELSE IsTrimOf(cell, raw)

\* A row holds an untrimmed id cell with whitespace at its edge, a cell that
\* trimming shortened, and a cell of a field that runs past the end of the line.
C1_Witness ==
    \E tag \in DOMAIN result :
        LET fields == rt_field_info(specCsv, tag)
            lines == LinesOf(tag)
        IN  \E j \in 1..Len(result[tag]) :
              /\ \E k \in 1..Len(fields) :
                    /\ fields[k].Name \in {"CASEID", "HHID"}
                    /\ result[tag][j][k] # <<>>
                    /\ IsSpace(result[tag][j][k][Len(result[tag][j][k])])
              /\ \E k \in 1..Len(fields) :
                    /\ fields[k].Name \notin {"CASEID", "HHID"}
                    /\ Len(result[tag][j][k])
                         < Len(ColumnsOf(lines[j], fields[k].Start, fields[k].Len))
              /\ \E k \in 1..Len(fields) :
                    fields[k].Start + fields[k].Len - 1 > Len(lines[j])

\* One step of the call, seen from the line it read.
C2_Step ==
    /\ dat' # dat =>
          LET line == dat'[Len(dat')]
              tag == ColumnsOf(line, specCsv.Start, specCsv.Len)
          IN  IF \E k \in 1..Len(specCsv.rows) : specCsv.rows[k].RecordTypeValue = tag
              THEN /\ tag \in DOMAIN result'
                   /\ Len(result'[tag]) = Len(RowsOf(result, tag)) + 1
                   /\ SubSeq(result'[tag], 1, Len(result'[tag]) - 1) = RowsOf(result, tag)
                   /\ \A u \in (DOMAIN result \cup DOMAIN result') \ {tag} :
                         RowsOf(result', u) = RowsOf(result, u)
                   /\ reported' = reported
              ELSE /\ result' = result
                   /\ reported' = Append(reported, <<tag, Len(dat)>>)
    /\ dat' = dat => (result' = result /\ reported' = reported)
    /\ CountRows(result', DOMAIN result') + Len(reported') = Len(dat')

\* C2: a line whose untrimmed record-type columns equal a declared
\* RecordTypeValue appends exactly one row, at the end of that record's rows
\* and nowhere else; any other line is reported and skipped and emits no row;
\* emitted rows plus skipped lines equal the lines read.
C2_RecordTypeDispatch == [][C2_Step]_vars

\* Two lines were read, one was skipped and one emitted a row that reached the
\* record's output file; the record type of the emitted line is a space.
C2_Witness ==
    /\ datPc = "done"
    /\ Len(dat) = 2
    /\ Len(reported) = 1
    /\ \E tag \in DOMAIN result :
          /\ IsSpace(tag[1])
          /\ Len(result[tag]) = 1
          /\ \E n \in DOMAIN outFolder : outFolder[n].rows = result[tag]

Cell12A == <<"A", "A", "A", "A", "A", "A", "A", "A", "A", "A", "A", "A">>

ScenarioRan ==
    /\ specCsv = ScenarioCsv
    /\ dat = <<ScenarioLine1, ScenarioLine2>>
    /\ datPc = "done"

\* C3 as claimed: line '2HHHH1234 07' emits the cells ['HHHH1234', '07'].
C3_AsClaimed ==
    ScenarioRan =>
        outFolder = [n \in {"R1", "R2"} |->
            IF n = "R1"
            THEN [header |-> <<"CASEID">>, rows |-> << <<Cell12A>> >>]
            ELSE [header |-> <<"HHID", "B16">>,
                  rows |-> << << <<"H", "H", "H", "H", "1", "2", "3", "4">>,
                                 <<"0", "7">> >> >>]]

\* C3, amended: with rt_start=1, rt_length=1 and records '1': [CASEID 2/12],
\* '2': [HHID 2/9, B16 10/2], line '1AAAAAAAAAAAA' emits one row with the cell
\* 'AAAAAAAAAAAA' to record 1's output and line '2HHHH1234 07' emits one row
\* with the cells ['HHHH1234 ', '0'] to record 2's output: HHID is columns 2-10
\* untrimmed and B16 is columns 10-11, ' 0', trimmed.
C3_DispatchScenario ==
    ScenarioRan =>
        outFolder = [n \in {"R1", "R2"} |->
            IF n = "R1"
            THEN [header |-> <<"CASEID">>, rows |-> << <<Cell12A>> >>]
            ELSE [header |-> <<"HHID", "B16">>,
                  rows |-> << << <<"H", "H", "H", "H", "1", "2", "3", "4", " ">>,
                                 <<"0">> >> >>]]

C3_Witness == ScenarioRan /\ DOMAIN outFolder = {"R1", "R2"}

(***************************************************************************)
(* Claims about RelationRowProcessor                                       *)
(***************************************************************************)
Relation(name, primary, primaryLink, secondary, secondaryLink) ==
    [RelName |-> name, PrimaryTable |-> primary, PrimaryLink |-> primaryLink,
     SecondaryTable |-> secondary, SecondaryLink |-> secondaryLink]

ScriptExpected ==
    << None, None, None, None,
       Relation("R", "P", "*ROWID*", "S1", "L1"),
       None,
       Relation("R", "P", "L2", "S2", "*ROWID*") >>

\* C4: on an empty processor the calls Name=R, Primary=P, Secondary=S1,
\* SecondaryLink=L1, PrimaryLink=L2, Secondary=S2, Emit() return exactly two
\* relations: (R, P, *ROWID*, S1, L1) from the PrimaryLink call and
\* (R, P, L2, S2, *ROWID*) from Emit(); every other call returns None.
C4_RelationScenario ==
    scriptPos >= 0 => scriptReturns = SubSeq(ScriptExpected, 1, scriptPos)

C4_Witness == scriptPos = Len(Script) /\ relCall = <<"Emit", "">>

AllEmpty(self) ==
    /\ self.RelationshipName = ""
    /\ self.PrimaryTable = ""
    /\ self.PrimaryLink = ""
    /\ self.SecondaryTable = ""
    /\ self.SecondaryLink = ""

C5_Step ==
    /\ relCall'[1] = "Name" =>
          IF myRelationProcessor.RelationshipName # ""
          THEN relRaised' /\ myRelationProcessor' = myRelationProcessor
          ELSE /\ ~relRaised'
               /\ myRelationProcessor'.RelationshipName = relCall'[2]
    /\ relCall'[1] = "Primary" =>
          IF myRelationProcessor.PrimaryTable # ""
          THEN relRaised' /\ myRelationProcessor' = myRelationProcessor
          ELSE /\ ~relRaised'
               /\ myRelationProcessor'.PrimaryTable = relCall'[2]
    /\ relCall'[1] = "Emit" => ~relRaised' /\ AllEmpty(myRelationProcessor')

\* C5: AddRow('Name', x) with a name already set and AddRow('Primary', x) with
\* a primary table already set raise and leave the five fields unchanged;
\* after Emit() the five fields are empty; with the field empty the call sets
\* it without error.
C5_ReassertionIsFatal == [][C5_Step]_vars

\* A Name row was refused while a relation was under way.
C5_Witness ==
    /\ relCall = <<"Name", "R2">>
    /\ relRaised
    /\ myRelationProcessor.RelationshipName = "R"
    /\ myRelationProcessor.PrimaryTable = "P"
    /\ myRelationProcessor.SecondaryTable = "S1"

(***************************************************************************)
(* Claims about the valuesets of DCF_Parser                                *)
(***************************************************************************)
\* How each Value= line of SpecVS is meant: the value v and the description
\* d around its first ';', and either the value row it stands for (vOut,
\* dOut) or its ranges: integer endpoints a and b or not, max > min or not,
\* and the endpoints as str(float(...)) writes them.
Reading ==
    [id \in ValueLineIds |->
        CASE id = "Padded" ->
            [v |-> <<" ", "7", " ">>,
             d |-> <<" ", "M", " ">>,
             explicit |-> TRUE,
             vOut |-> <<"7", " ">>,
             dOut |-> <<"M">>,
             ranges |-> <<>>]
          [] id = "Time" ->
            [v |-> <<"1">>,
             d |-> <<"a", ";", "b", " ", "2", ":", "0", "0">>,
             explicit |-> TRUE,
             vOut |-> <<"1">>,
             dOut |-> <<"a", ";", "b", " ", "2", ":", "0", "0">>,
             ranges |-> <<>>]
          [] id = "Zero" ->
            [v |-> <<"2", ":", "2">>,
             d |-> <<"M">>,
             explicit |-> FALSE,
             vOut |-> <<>>,
             dOut |-> <<"M">>,
             ranges |->
               <<[int |-> TRUE, wide |-> FALSE, a |-> 2, b |-> 2,
                  loOut |-> <<"2", ".", "0">>,
                  hiOut |-> <<"2", ".", "0">>]>>]
          [] id = "Frac" ->
            [v |-> <<"1", ".", "5", ":", "3">>,
             d |-> <<"M">>,
             explicit |-> FALSE,
             vOut |-> <<>>,
             dOut |-> <<"M">>,
             ranges |->
               <<[int |-> FALSE, wide |-> TRUE, a |-> 0, b |-> 0,
                  loOut |-> <<"1", ".", "5">>,
                  hiOut |-> <<"3", ".", "0">>]>>]
          [] id = "Two" ->
            [v |-> <<"1", ":", "2", " ", "4", ":", "5">>,
             d |-> <<"D">>,
             explicit |-> FALSE,
             vOut |-> <<>>,
             dOut |-> <<"D">>,
             ranges |->
               <<[int |-> TRUE, wide |-> TRUE, a |-> 1, b |-> 2,
                  loOut |-> <<"1", ".", "0">>,
                  hiOut |-> <<"2", ".", "0">>],
                 [int |-> TRUE, wide |-> TRUE, a |-> 4, b |-> 5,
                  loOut |-> <<"4", ".", "0">>,
                  hiOut |-> <<"5", ".", "0">>]>>]
          [] id = "Back" ->
            [v |-> <<"3", ":", "1">>,
             d |-> <<"B">>,
             explicit |-> FALSE,
             vOut |-> <<>>,
             dOut |-> <<"B">>,
             ranges |->
               <<[int |-> TRUE, wide |-> FALSE, a |-> 3, b |-> 1,
                  loOut |-> <<"3", ".", "0">>,
                  hiOut |-> <<"1", ".", "0">>]>>]
          [] id = "Months12" ->
            [v |-> <<"1", ":", "1", "2">>,
             d |-> <<"M", "o", "n", "t", "h", "s">>,
             explicit |-> FALSE,
             vOut |-> <<>>,
             dOut |-> <<"M", "o", "n", "t", "h", "s">>,
             ranges |->
               <<[int |-> TRUE, wide |-> TRUE, a |-> 1, b |-> 12,
                  loOut |-> <<"1", ".", "0">>,
                  hiOut |-> <<"1", "2", ".", "0">>]>>]
          [] id = "Unknown" ->
            [v |-> <<"9", "9", "9", "9">>,
             d |-> <<"U", "n", "k", "n", "o", "w", "n">>,
             explicit |-> TRUE,
             vOut |-> <<"9", "9", "9", "9">>,
             dOut |-> <<"U", "n", "k", "n", "o", "w", "n">>,
             ranges |-> <<>>]
          [] id = "Years" ->
            [v |-> <<"1", "3", ":", "1", "1", "2">>,
             d |-> <<"Y", "e", "a", "r", "s", "+", "1", "2">>,
             explicit |-> FALSE,
             vOut |-> <<>>,
             dOut |-> <<"Y", "e", "a", "r", "s", "+", "1", "2">>,
             ranges |->
               <<[int |-> TRUE, wide |-> TRUE, a |-> 13, b |-> 112,
                  loOut |-> <<"1", "3", ".", "0">>,
                  hiOut |-> <<"1", "1", "2", ".", "0">>]>>]
          [] id = "Months5" ->
            [v |-> <<"1", ":", "5">>,
             d |-> <<"M", "o", "n", "t", "h", "s">>,
             explicit |-> FALSE,
             vOut |-> <<>>,
             dOut |-> <<"M", "o", "n", "t", "h", "s">>,
             ranges |->
               <<[int |-> TRUE, wide |-> TRUE, a |-> 1, b |-> 5,
                  loOut |-> <<"1", ".", "0">>,
                  hiOut |-> <<"5", ".", "0">>]>>]]

\* The values of the item the valuesets follow, as write() renders them.
ItemValues == Get(myItems[Len(myItems)], "Values", <<>>)

Shown(values) ==
    [i \in 1..Len(values) |->
        <<CsvCell(values[i][1]), values[i][2], values[i][3]>>]

\* The state behind a blank line that ran the ValueSet terminator, and the
\* rows that this terminator added to the item.
AtTerminator == dcfLine = "blank" /\ currentChunkType = "ValueSet"

Appended == Shown(attachedValues)

Slice(s, from, count) ==
    IF count >= 0 /\ from + count - 1 <= Len(s)
    THEN SubSeq(s, from, from + count - 1)
    ELSE <<>>

\* The explicit values and the ranges that a sequence of lines stands for.
RECURSIVE ExplicitIn(_)
ExplicitIn(ids) ==
    IF ids = <<>> THEN <<>>
    ELSE (IF Reading[Head(ids)].explicit
          THEN << <<Reading[Head(ids)].vOut, Reading[Head(ids)].dOut,
                    "ExplicitValue">> >>
          ELSE <<>>)
         \o ExplicitIn(Tail(ids))

RECURSIVE RangesIn(_)
RangesIn(ids) ==
    IF ids = <<>> THEN <<>>
    ELSE LET line == Reading[Head(ids)]
         IN  [j \in 1..Len(line.ranges) |->
                [r |-> line.ranges[j], d |-> line.dOut]]
             \o RangesIn(Tail(ids))

AllWide(rs) == \A i \in 1..Len(rs) : rs[i].r.wide

\* The lines whose explicit values a blank line finds buffered: those of the
\* chunk at its first blank line, none at a further one.
Pending == IF blankLines = 1 THEN chunkLines ELSE <<>>

\* The decision table of a range in a chunk with n ranges.
Expands(x, n) ==
    /\ x.r.int
    /\ x.r.b - x.r.a + 1 <= range_expansion_limit
    /\ \/ expand_ranges = "All"
       \/ expand_ranges = "Multiple" /\ n > 1

RowCount(x, n) == IF Expands(x, n) THEN x.r.b - x.r.a + 1 ELSE 2

RECURSIVE RowsBefore(_, _, _)
RowsBefore(rs, i, n) ==
    IF i <= 1 THEN 0
    ELSE RowsBefore(rs, i - 1, n) + RowCount(rs[i - 1], n)

\* The rows that the terminator added for the i-th range of the chunk.
RowsOfRange(i) ==
    LET rs == RangesIn(chunkLines)
    IN  Slice(Appended,
              Len(ExplicitIn(Pending)) + RowsBefore(rs, i, Len(rs)) + 1,
              RowCount(rs[i], Len(rs)))

ExpandedAs(x) ==
    [i \in 1..(x.r.b - x.r.a + 1) |->
        <<IntStr(x.r.a + i - 1), x.d, "ExpandedRange">>]

MinMaxAs(x, minType, maxType) ==
    << <<x.r.loOut, x.d, minType>>, <<x.r.hiOut, x.d, maxType>> >>

Types(rows) == [i \in 1..Len(rows) |-> rows[i][3]]

Months == <<"M", "o", "n", "t", "h", "s">>
Years12 == <<"Y", "e", "a", "r", "s", "+", "1", "2">>

\* C6 as the specification words it: every integer range a:b of size
\* <= limit gives b-a+1 ExpandedRange rows under All, every range gives a
\* RangeMin and a RangeMax row under None, at every terminator.
C6_AsClaimed ==
    AtTerminator =>
        LET rs == RangesIn(chunkLines)
        IN  \A i \in 1..Len(rs) :
                /\ (expand_ranges = "All" /\ rs[i].r.int
                      /\ rs[i].r.b - rs[i].r.a + 1 <= range_expansion_limit)
                   => RowsOfRange(i) = ExpandedAs(rs[i])
                /\ expand_ranges = "None"
                   => Types(RowsOfRange(i)) = <<"RangeMin", "RangeMax">>
                /\ ~rs[i].r.int
                   => "ExpandedRange" \notin
                          {Types(Appended)[k] : k \in 1..Len(Appended)}

\* C6 (amended): at a ValueSet terminator of a chunk whose ranges all have
\* max > min, (1) under All an integer range a:b with b-a+1 <= limit adds
\* exactly the rows a, a+1, .., b in ascending order, each with the stripped
\* description of the range and the type ExpandedRange; (2) under None a
\* range adds exactly two rows, its min and its max as floats, typed
\* RangeMin and RangeMax when it is the only range of the chunk and
\* MultiRangeMin and MultiRangeMax otherwise; (3) a range with a non-integer
\* endpoint adds two rows and never an ExpandedRange row. E.g. Value=1:5;Months
\* under All with limit 100 gives the rows 1..5, Months, ExpandedRange.
C6_RangeExpansionLaws ==
    (AtTerminator /\ AllWide(RangesIn(chunkLines))) =>
        LET rs == RangesIn(chunkLines)
            single == Len(rs) = 1
        IN  /\ dcfPc = "between"
            /\ \A i \in 1..Len(rs) :
                /\ (expand_ranges = "All" /\ rs[i].r.int
                      /\ rs[i].r.b - rs[i].r.a + 1 <= range_expansion_limit)
                   => RowsOfRange(i) = ExpandedAs(rs[i])
                /\ expand_ranges = "None"
                   => RowsOfRange(i) =
                        MinMaxAs(rs[i],
                                 IF single THEN "RangeMin" ELSE "MultiRangeMin",
                                 IF single THEN "RangeMax" ELSE "MultiRangeMax")
                /\ ~rs[i].r.int
                   => /\ Len(RowsOfRange(i)) = 2
                      /\ \A k \in 1..2 : RowsOfRange(i)[k][3] # "ExpandedRange"
            /\ (chunkLines = <<"Months5">> /\ expand_ranges = "All"
                  /\ range_expansion_limit = 100)
               => Appended = << <<<<"1">>, Months, "ExpandedRange">>,
                                <<<<"2">>, Months, "ExpandedRange">>,
                                <<<<"3">>, Months, "ExpandedRange">>,
                                <<<<"4">>, Months, "ExpandedRange">>,
                                <<<<"5">>, Months, "ExpandedRange">> >>

C6_Witness ==
    /\ dcfPc = "between"
    /\ dcfLine = "blank"
    /\ blankLines = 1
    /\ expand_ranges = "All"
    /\ range_expansion_limit = 100
    /\ vsChunks = << <<"Months5">> >>
    /\ Shown(ItemValues) = << <<<<"1">>, Months, "ExpandedRange">>,
                              <<<<"2">>, Months, "ExpandedRange">>,
                              <<<<"3">>, Months, "ExpandedRange">>,
                              <<<<"4">>, Months, "ExpandedRange">>,
                              <<<<"5">>, Months, "ExpandedRange">> >>

\* C7 as the specification words it: the rule holds at every terminator,
\* whatever the ranges of the chunk are.
C7_AsClaimed ==
    AtTerminator =>
        LET rs == RangesIn(chunkLines)
        IN  \A i \in 1..Len(rs) :
                /\ Len(rs) > 1
                   => RowsOfRange(i) =
                        IF /\ expand_ranges \in {"All", "Multiple"}
                           /\ rs[i].r.int
                           /\ rs[i].r.b - rs[i].r.a + 1 <= range_expansion_limit
                        THEN ExpandedAs(rs[i])
                        ELSE MinMaxAs(rs[i], "MultiRangeMin", "MultiRangeMax")
                /\ (Len(rs) = 1 /\ expand_ranges = "Multiple")
                   => RowsOfRange(i) = MinMaxAs(rs[i], "RangeMin", "RangeMax")

\* C7 (amended): at a ValueSet terminator of a chunk whose ranges all have
\* max > min (any other chunk aborts the parse), when the chunk holds more
\* than one range, counting several ranges on one Value= line, each range is
\* decided on its own: under All or Multiple an integer range of size <= limit
\* becomes one ExpandedRange row per integer, any other range a MultiRangeMin
\* and a MultiRangeMax row; under None every range becomes MultiRangeMin,
\* MultiRangeMax. A chunk with exactly one range under Multiple is never
\* expanded and gives RangeMin, RangeMax. E.g. the ranges 1:12 and 13:112
\* under Multiple or All with limit 100 give 112 ExpandedRange rows.
C7_MultiRangeMaterialization ==
    (AtTerminator /\ AllWide(RangesIn(chunkLines))) =>
        LET rs == RangesIn(chunkLines)
        IN  /\ \A i \in 1..Len(rs) :
                /\ Len(rs) > 1
                   => RowsOfRange(i) =
                        IF /\ expand_ranges \in {"All", "Multiple"}
                           /\ rs[i].r.int
                           /\ rs[i].r.b - rs[i].r.a + 1 <= range_expansion_limit
                        THEN ExpandedAs(rs[i])
                        ELSE MinMaxAs(rs[i], "MultiRangeMin", "MultiRangeMax")
                /\ (Len(rs) = 1 /\ expand_ranges = "Multiple")
                   => RowsOfRange(i) = MinMaxAs(rs[i], "RangeMin", "RangeMax")
            /\ (chunkLines = <<"Months12", "Years">>
                  /\ expand_ranges \in {"All", "Multiple"}
                  /\ range_expansion_limit = 100)
               => /\ Len(Appended) = 112
                  /\ \A k \in 1..112 :
                        Appended[k] = <<IntStr(k),
                                        IF k <= 12 THEN Months ELSE Years12,
                                        "ExpandedRange">>
                  /\ Appended[1][1] = <<"1">>
                  /\ Appended[13][1] = <<"1", "3">>
                  /\ Appended[112][1] = <<"1", "1", "2">>

C7_Witness ==
    /\ dcfPc = "between"
    /\ dcfLine = "blank"
    /\ blankLines = 1
    /\ expand_ranges = "Multiple"
    /\ range_expansion_limit = 100
    /\ vsChunks = << <<"Months12", "Years">> >>
    /\ Len(ItemValues) = 112
    /\ Shown(ItemValues)[112] = <<<<"1", "1", "2">>, Years12, "ExpandedRange">>

\* The rows of the ranges rs of one chunk, range by range.
RECURSIVE RangeRowsAs(_, _, _)
RangeRowsAs(rs, i, n) ==
    IF i > Len(rs) THEN <<>>
    ELSE (IF Expands(rs[i], n) THEN ExpandedAs(rs[i])
          ELSE IF n > 1
               THEN MinMaxAs(rs[i], "MultiRangeMin", "MultiRangeMax")
               ELSE MinMaxAs(rs[i], "RangeMin", "RangeMax"))
         \o RangeRowsAs(rs, i + 1, n)

\* The rows of the lines ids taken line by line, in a chunk with n ranges.
RECURSIVE InLineOrder(_, _)
InLineOrder(ids, n) ==
    IF ids = <<>> THEN <<>>
    ELSE ExplicitIn(<<Head(ids)>>)
         \o RangeRowsAs(RangesIn(<<Head(ids)>>), 1, n)
         \o InLineOrder(Tail(ids), n)

Unknown9999 == <<<<"9", "9", "9", "9">>, <<"U", "n", "k", "n", "o", "w", "n">>, "ExplicitValue">>

C8_Scenario ==
    /\ expand_ranges = "All"
    /\ range_expansion_limit = 10
    /\ chunkLines = <<"Months12", "Unknown">>
    /\ blankLines = 1

\* C8 as the specification words it: the scenario gives (1, Months,
\* RangeMin), (12, Months, RangeMax), (9999, Unknown, ExplicitValue), and the
\* rows of a valueset are in the order of its Value= lines.
C8_AsClaimed ==
    (AtTerminator /\ dcfPc = "between" /\ blankLines = 1) =>
        /\ C8_Scenario
           => Appended = << <<<<"1">>, Months, "RangeMin">>,
                            <<<<"1", "2">>, Months, "RangeMax">>,
                            Unknown9999 >>
        /\ Appended = InLineOrder(chunkLines, Len(RangesIn(chunkLines)))

\* C8 (amended): under All with limit 10, a valueset whose lines are
\* Value=1:12;Months and Value=9999;Unknown gives the item exactly three rows
\* at its terminator, in this order: (9999, Unknown, ExplicitValue),
\* (1.0, Months, RangeMin), (12.0, Months, RangeMax). In general a terminator
\* that does not abort first adds the explicit values buffered since the last
\* terminator, in the order of their lines, and then the rows of the ranges
\* of the chunk, in the order of their lines (so a further blank line behind
\* the first adds the rows of the ranges once more); write() puts the values
\* of the item into FlatValuesSpec.csv in that order.
C8_OverLimitRangeWithExplicitValue ==
    /\ (AtTerminator /\ dcfPc = "between") =>
        /\ Appended = ExplicitIn(Pending)
                      \o RangeRowsAs(RangesIn(chunkLines), 1,
                                     Len(RangesIn(chunkLines)))
        /\ C8_Scenario
           => Appended = << Unknown9999,
                            <<<<"1", ".", "0">>, Months, "RangeMin">>,
                            <<<<"1", "2", ".", "0">>, Months, "RangeMax">> >>
    /\ FlatValuesSpec.exists =>
        /\ Len(FlatValuesSpec.rows) = Len(ItemValues)
        /\ \A k \in 1..Len(ItemValues) :
              FlatValuesSpec.rows[k] =
                  <<Item0.FileCode, Item0.Name>> \o Shown(ItemValues)[k]

C8_Witness ==
    /\ dcfPc = "written"
    /\ expand_ranges = "All"
    /\ range_expansion_limit = 10
    /\ vsChunks = << <<"Months12", "Unknown">> >>
    /\ blankLines = 1
    /\ FlatValuesSpec.rows =
          << <<"XXIR01", "V001">> \o Unknown9999,
             <<"XXIR01", "V001", <<"1", ".", "0">>, Months, "RangeMin">>,
             <<"XXIR01", "V001", <<"1", "2", ".", "0">>, Months, "RangeMax">> >>

\* C9: at a ValueSet terminator, a range with max <= min (max - min + 1 <= 1)
\* in the chunk aborts parse() with an error, under every expansion policy
\* and limit; after the abort the parser has no _items, _relations or _parsed
\* attribute and the item got nothing from the aborted terminator; write()
\* raises and no FlatValuesSpec.csv is written.
C9_ZeroWidthRangeIsFatal ==
    /\ (AtTerminator /\ ~AllWide(RangesIn(chunkLines)))
       => dcfPc \in {"raised", "writeRaised"}
    /\ dcfPc \in {"raised", "writeRaised"}
       => /\ ~_items.has
          /\ ~_relations.has
          /\ ~_parsed.has
          /\ ~FlatValuesSpec.exists
          /\ attachedValues = <<>>

C9_Witness ==
    /\ dcfPc = "writeRaised"
    /\ expand_ranges = "None"
    /\ range_expansion_limit = 100
    /\ chunkLines = <<"Unknown", "Zero">>
    /\ ~FlatValuesSpec.exists

RECURSIVE Flatten(_)
Flatten(chunks) ==
    IF chunks = <<>> THEN <<>> ELSE Head(chunks) \o Flatten(Tail(chunks))

ExplicitRowsOfFile ==
    SelectSeq(FlatValuesSpec.rows, LAMBDA row : row[5] = "ExplicitValue")

FileRows(rows) ==
    [k \in 1..Len(rows) |-> <<Item0.FileCode, Item0.Name>> \o rows[k]]

\* The lines read up to the end of the file; the chunk the file ends in is
\* not among the terminated ones.
AllLinesRead ==
    Flatten(vsChunks) \o (IF blankLines = 0 THEN chunkLines ELSE <<>>)

RECURSIVE ExplicitAsWritten(_)
ExplicitAsWritten(ids) ==
    IF ids = <<>> THEN <<>>
    ELSE (IF Reading[Head(ids)].explicit
          THEN << <<Reading[Head(ids)].v, Reading[Head(ids)].d,
                    "ExplicitValue">> >>
          ELSE <<>>)
         \o ExplicitAsWritten(Tail(ids))

AsWritten(base) == [i \in DOMAIN base |-> Entry(base[i], 1)]

\* The rows of the three outputs that parse() has produced: the items, their
\* value rows and the relations.
RecordSpecRows == _items.value
ValueSpecRows == ValueRowsOf(_items.value)
RelationSpecRows == _relations.value

\* C11 (as claimed): parsing the minimal dictionary (a Dictionary chunk,
\* one Level, the id-item CASEID with start 1 and len 12, one Record with
\* type value '1', the item V001 with start 13 and len 2) yields exactly 3
\* RecordSpec rows in this order: ItemType RecordDescription with RecordName
\* '*' and Start/Len copied from RecordTypeStart/RecordTypeLen, ItemType
\* IdItem for CASEID, ItemType Item for V001; no value rows and no relation
\* rows.
C11_AsClaimed ==
    dcf = AsWritten(MinimalDcf) /\ _parsed.has =>
        /\ Len(RecordSpecRows) = 3
        /\ RecordSpecRows[1]["ItemType"] = "RecordDescription"
        /\ RecordSpecRows[1]["RecordName"] = "*"
        /\ RecordSpecRows[1]["Start"] = RecordSpecRows[1]["RecordTypeStart"]
        /\ RecordSpecRows[1]["Len"] = RecordSpecRows[1]["RecordTypeLen"]
        /\ RecordSpecRows[2]["ItemType"] = "IdItem"
        /\ RecordSpecRows[2]["Name"] = "CASEID"
        /\ RecordSpecRows[3]["ItemType"] = "Item"
        /\ RecordSpecRows[3]["Name"] = "V001"
        /\ ValueSpecRows = <<>>
        /\ RelationSpecRows = <<>>

\* C11 (as the code has it): the minimal dictionary yields the three rows in
\* that order, the first with the ItemType that line 209 writes,
\* RecordDesciption; no value rows and no relation rows.
C11_MinimalDictionaryRows ==
    dcf = AsWritten(MinimalDcf) /\ _parsed.has =>
        /\ Len(RecordSpecRows) = 3
        /\ RecordSpecRows[1]["ItemType"] = "RecordDesciption"
        /\ RecordSpecRows[1]["RecordName"] = "*"
        /\ RecordSpecRows[1]["Start"] = "15"
        /\ RecordSpecRows[1]["Len"] = "1"
        /\ RecordSpecRows[2]["ItemType"] = "IdItem"
        /\ RecordSpecRows[2]["Name"] = "CASEID"
        /\ RecordSpecRows[2]["Start"] = "1"
        /\ RecordSpecRows[2]["Len"] = "12"
        /\ RecordSpecRows[2]["RecordName"] = "REC01"
        /\ RecordSpecRows[2]["RecordTypeValue"] = "1"
        /\ RecordSpecRows[3]["ItemType"] = "Item"
        /\ RecordSpecRows[3]["Name"] = "V001"
        /\ RecordSpecRows[3]["Start"] = "13"
        /\ RecordSpecRows[3]["Len"] = "2"
        /\ ValueSpecRows = <<>>
        /\ RelationSpecRows = <<>>

C11_Parsed == dcf = AsWritten(MinimalDcf) /\ dcfPc = "parsed"

\* A step of the loop over the lines: the line read is a blank line, or the
\* tag of the chunk id.
ReadsBlank == _parsed_lines' = _parsed_lines + 1 /\ dcfLine' = "blank"
ReadsTagOf(id) ==
    /\ _parsed_lines' = _parsed_lines + 1
    /\ Len(dcf') = Len(dcf) + 1
    /\ dcf'[Len(dcf')].chunk = id

\* The blank line runs the terminator of the chunk type.
Terminates(type) == ReadsBlank /\ ~skippingChunk /\ currentChunkType = type

\* The type values of the records without the quotes that the file puts
\* around them.
Unquoted(type) ==
    CASE type \in {"'1'", "1"} -> "1"
      [] type \in {"'2'", "2"} -> "2"

\* C12: at the terminator of each [Record] chunk the parser emits exactly
\* one IdItem row per id-item accumulated in the most recent [IdItems]
\* block, in accumulation order, each with the id-item's Name, Label, Start
\* and Len and the new record's name, label and type value without its
\* quotes; the earlier rows stay as they are. Id-items accumulate at the
\* terminators of the item chunks of an [IdItems] block, an [IdItems] tag
\* empties the list, and as long as no [IdItems] tag was read the list is
\* empty, so that a record declared before emits no IdItem row.
C12_IdItemReplication ==
    [][/\ Terminates("Record") /\ exception' \in {"", "ValueError"} =>
            /\ Len(myItems') = Len(myItems) + Len(currentIds)
            /\ SubSeq(myItems', 1, Len(myItems)) = myItems
            /\ \A i \in DOMAIN currentIds :
                  LET row == myItems'[Len(myItems) + i]
                  IN  /\ row["ItemType"] = "IdItem"
                      /\ row["Name"] = currentIds[i].Name
                      /\ row["Label"] = currentIds[i].Label
                      /\ row["Start"] = currentIds[i].Start
                      /\ row["Len"] = currentIds[i].Len
                      /\ row["RecordName"] = chunkInfo["Name"]
                      /\ row["RecordLabel"] = chunkInfo["Label"]
                      /\ row["RecordTypeValue"] =
                             Unquoted(chunkInfo["RecordTypeValue"])
       /\ ReadsTagOf("IdItems") => currentIds' = <<>>
       /\ currentIds' # currentIds =>
            \/ ReadsTagOf("IdItems")
            \/ /\ Terminates("Item")
               /\ currentlyParsing = "IdItems"
               /\ currentIds' =
                     Append(currentIds,
                            [Name |-> chunkInfo["Name"],
                             Label |-> chunkInfo["Label"],
                             Start |-> chunkInfo["Start"],
                             Len |-> chunkInfo["Len"]])
       /\ (\A i \in DOMAIN dcf : dcf[i].chunk # "IdItems") => currentIds = <<>>
      ]_vars

\* The terminator of [Record] REC01 has run with the id-items CASEID and
\* V001 accumulated, and the two rows are the last of the list.
C12_Witness ==
    /\ dcfLine = "blank"
    /\ currentChunkType = "Record"
    /\ Len(currentIds) = 2
    /\ Len(myItems) = 3
    /\ myItems[2]["ItemType"] = "IdItem" /\ myItems[2]["Name"] = "CASEID"
    /\ myItems[3]["ItemType"] = "IdItem" /\ myItems[3]["Name"] = "V001"
    /\ myItems[3]["RecordName"] = "REC01"
    /\ myItems[3]["RecordTypeValue"] = "1"

\* A record is declared before any [IdItems] block and its terminator has
\* emitted no row.
C12_RecordBeforeIdItems ==
    /\ dcfLine = "blank"
    /\ currentChunkType = "Record"
    /\ \A i \in DOMAIN dcf : dcf[i].chunk # "IdItems"
    /\ Len(myItems) = 1

\* The names seen so far of the chunks of a type, with their labels, and the
\* warning that the terminator of the type prints.
SeenNames(type) == IF type = "Level" THEN myLevels ELSE myRecords
DuplicateWarning(type) ==
    IF type = "Level" THEN "duplicate level" ELSE "duplicate record"

C13_Warned ==
    /\ dcfPc = "parsed"
    /\ Len(printed) = 1
    /\ printed[1][1] = "duplicate record"
    /\ Len(SelectSeq(dcf, LAMBDA e : e.chunk = "REC01")) = 2

\* The tag of a chunk of the file, and the value of a key of it.
TagOf(id) == Head(ChunkLines(id)).key
Field(id, key) ==
    LET ls == SelectSeq(ChunkLines(id),
                        LAMBDA l : l.kind = "key" /\ l.key = key)
    IN  ls[Len(ls)].val

\* The chunks of a type that the file read declares: those that a blank
\* line ends.
Declared(type) ==
    {i \in DOMAIN dcf : TagOf(dcf[i].chunk) = type /\ dcf[i].blanks > 0}

\* The (RecordName, Name) pair of a row; the description row has no Name.
PairOf(row) == <<row["RecordName"], Get(row, "Name", "")>>

\* C14 (as claimed): whenever parse() completes without error, the emitted
\* RecordSpec rows contain each (RecordName, Name) pair at most once and
\* each record name belongs to one record declaration.
C14_AsClaimed ==
    _parsed.has =>
        /\ \A i, j \in DOMAIN RecordSpecRows :
              i # j => PairOf(RecordSpecRows[i]) # PairOf(RecordSpecRows[j])
        /\ \A i, j \in Declared("Record") :
              i # j => Field(dcf[i].chunk, "Name") # Field(dcf[j].chunk, "Name")

\* C14 (amended): whenever parse() completes without error, each record
\* name and each level name of the dictionary has one label: all [Record]
\* chunks of a name, and all [Level] chunks of a name, carry the same
\* label. A record may be declared again with that label, and (RecordName,
\* Name) pairs may repeat in the rows.
C14_OneLabelPerName ==
    _parsed.has =>
        \A type \in {"Record", "Level"} :
            \A i, j \in Declared(type) :
                Field(dcf[i].chunk, "Name") = Field(dcf[j].chunk, "Name")
                    => Field(dcf[i].chunk, "Label") = Field(dcf[j].chunk, "Label")

\* parse() has completed for a dictionary that declares REC01 twice with the
\* same label; the pair (REC01, CASEID) is in two rows.
C14_Witness ==
    /\ dcfPc = "parsed"
    /\ \E i, j \in Declared("Record") :
          i # j /\ dcf[i].chunk = "REC01" /\ dcf[j].chunk = "REC01"
    /\ \E i, j \in DOMAIN RecordSpecRows :
          /\ i # j
          /\ PairOf(RecordSpecRows[i]) = <<"REC01", "CASEID">>
          /\ PairOf(RecordSpecRows[j]) = <<"REC01", "CASEID">>

HasField(id, key) ==
    \E k \in DOMAIN ChunkLines(id) :
        ChunkLines(id)[k].kind = "key" /\ ChunkLines(id)[k].key = key

\* The tags that say what the chunks behind them belong to (lines 154, 169,
\* 174, 180), and the last of them before chunk i of the file.
SectionTags == {"Record", "IdItems", "Dictionary", "Relation"}
SectionOf(i) ==
    LET before == {j \in 1..(i - 1) : TagOf(dcf[j].chunk) \in SectionTags}
    IN  IF before = {} THEN 0
        ELSE CHOOSE j \in before : \A k \in before : k <= j

\* The [Item] chunks of the file that follow a [Record] tag, in file order.
ItemChunks ==
    SelectSeq([i \in DOMAIN dcf |-> i],
              LAMBDA i : /\ TagOf(dcf[i].chunk) = "Item"
                         /\ SectionOf(i) # 0
                         /\ TagOf(dcf[SectionOf(i)].chunk) = "Record")

\* The default of the dictionary for ZeroFill or DecimalChar: that of the
\* [Dictionary] chunk, and False for a file without one.
DictionaryDefault(key) ==
    IF \E i \in DOMAIN dcf : dcf[i].chunk = "Dictionary"
    THEN Field("Dictionary", key) ELSE PyFalse

\* The rows emitted as Item (finalization may have made them joinable).
ItemRows ==
    SelectSeq(RecordSpecRows,
              LAMBDA r : r["ItemType"] \in {"Item", "JoinableItem"})

\* C15 (as claimed): each [Item] chunk that follows a [Record] tag yields
\* exactly one RecordSpec row, with ZeroFill and DecimalChar taken from the
\* chunk when present and from the Dictionary defaults otherwise, and the
\* name, label and type value of the most recently terminated [Record]; the
\* count of such rows equals the count of such chunks whatever the number
\* of blank lines between chunks and also for the last chunk of the file.
C15_AsClaimed ==
    _parsed.has =>
        /\ Len(ItemRows) = Len(ItemChunks)
        /\ \A k \in DOMAIN ItemRows :
              k \in DOMAIN ItemChunks =>
                  LET id == dcf[ItemChunks[k]].chunk
                      rec == dcf[SectionOf(ItemChunks[k])].chunk
                  IN  /\ ItemRows[k]["Name"] = Field(id, "Name")
                      /\ ItemRows[k]["ZeroFill"] =
                            IF HasField(id, "ZeroFill")
                            THEN Field(id, "ZeroFill")
                            ELSE DictionaryDefault("ZeroFill")
                      /\ ItemRows[k]["DecimalChar"] =
                            IF HasField(id, "DecimalChar")
                            THEN Field(id, "DecimalChar")
                            ELSE DictionaryDefault("DecimalChar")
                      /\ ItemRows[k]["RecordName"] = Field(rec, "Name")
                      /\ ItemRows[k]["RecordLabel"] = Field(rec, "Label")
                      /\ ItemRows[k]["RecordTypeValue"] =
                            Unquoted(Field(rec, "RecordTypeValue"))

\* parse() has completed for the minimal dictionary with two blank lines
\* behind [Item] V001: the one chunk has two rows.
C15_TwoBlankLines ==
    /\ dcfPc = "parsed"
    /\ dcf = [AsWritten(MinimalDcf) EXCEPT ![6].blanks = 2]
    /\ Len(ItemChunks) = 1
    /\ Len(ItemRows) = 2

\* parse() has completed for the minimal dictionary without a blank line
\* behind [Item] V001, the last chunk: the chunk has no row.
C15_NoLastBlankLine ==
    /\ dcfPc = "parsed"
    /\ dcf = [AsWritten(MinimalDcf) EXCEPT ![6].blanks = 0]
    /\ Len(ItemChunks) = 1
    /\ Len(ItemRows) = 0

\* The values that a row has.
ValuesOf(row) == Get(row, "Values", <<>>)

\* The step attaches the buffered values to the last emitted row: behind
\* the values that the row already has and in front of the rows of the
\* ranges of the chunk; no row is added, the rows that are other objects
\* stay as they are, the buffer is empty afterwards, and at most the
\* warning about the labels is printed.
AttachesToLastRow ==
    LET n == Len(myItems)
        had == ValuesOf(myItems[n])
        has == ValuesOf(myItems'[n])
    IN  /\ dcfPc' = "lines"
        /\ Len(myItems') = n
        /\ Len(has) >= Len(had) + Len(currentValues)
        /\ SubSeq(has, 1, Len(had)) = had
        /\ SubSeq(has, Len(had) + 1, Len(had) + Len(currentValues))
              = currentValues
        /\ \A k \in (Len(had) + Len(currentValues) + 1)..Len(has) :
              has[k][3] # "ExplicitValue"
        /\ \A i \in 1..n : itemObj[i] # itemObj[n] => myItems'[i] = myItems[i]
        /\ currentValues' = <<>>
        /\ \/ printed' = printed
           \/ printed' = Append(printed,
                                <<"valueset did not seem to match item",
                                  _parsed_lines'>>)

\* The buffer changes only at a [ValueSet] terminator and at a Value= line,
\* which appends to it.
BufferFilledByValueLines ==
    currentValues' # currentValues =>
        \/ Terminates("ValueSet")
        \/ /\ dcfLine' = "key"
           /\ Len(currentValues') = Len(currentValues) + 1
           /\ SubSeq(currentValues', 1, Len(currentValues)) = currentValues

C16_BehindDescriptionRow ==
    /\ dcfPc = "raised"
    /\ exception = "KeyError"
    /\ dcf = <<Entry("Dictionary", 1), Entry("AgeGroupValues", 1)>>
    /\ Len(myItems) = 1
    /\ "Values" \notin DOMAIN myItems[1]

\* The file without its chunk i and the blank lines behind it.
Without(file, i) == SubSeq(file, 1, i - 1) \o SubSeq(file, i + 1, Len(file))

\* The cells of the RecordSpec rows of items, without FMETYPE.
RecordSpecCells(items) ==
    [k \in DOMAIN items |-> RecordSpecRow(items[k], MAIN_FIELD_NAMES_0)]

\* C17 (as claimed): for a bracketed tag that is not one of Dictionary,
\* Level, IdItems, Record, Item, ValueSet, Relation, all lines up to the
\* next blank line change nothing: no line of the chunk aborts parse(), and
\* the RecordSpec, ValueSpec and RelationSpec rows produced equal those
\* produced for the same file with that chunk removed, whatever keys the
\* skipped chunk contains (here Value= and Occurrences=) and wherever it
\* stands in the file.
C17_AsClaimed ==
    /\ ~(dcfPc = "raised" /\ dcfLine = "key" /\ skippingChunk)
    /\ dcfPc = "parsed" =>
          \A i \in DOMAIN dcf :
              TagOf(dcf[i].chunk) \notin KnownTags =>
                  LET other == ParseOf(LinesOfDcf(Without(dcf, i)),
                                       expand_ranges, range_expansion_limit)
                  IN  /\ ~other.raised
                      /\ RecordSpecCells(RecordSpecRows)
                            = RecordSpecCells(other._items)
                      /\ ValueSpecRows = ValueRowsOf(other._items)
                      /\ RelationSpecRows = other._relations

\* parse() has completed for the minimal dictionary with the chunk
\* [Languages] behind [Item] V001: the row of V001 has the Occurrences of
\* the skipped chunk, and the value of its Value= line is in the buffer.
C17_SkippedChunkBehindItem ==
    /\ dcfPc = "parsed"
    /\ dcf = Append(AsWritten(MinimalDcf), Entry("Languages", 1))
    /\ RecordSpecRows[3]["Name"] = "V001"
    /\ RecordSpecRows[3]["Occurrences"] = "3"
    /\ Len(currentValues) = 1

\* The full dictionary with the chunk [Languages] behind [Relation]: its
\* first line has aborted parse().
C17_SkippedChunkBehindRelation ==
    /\ dcfPc = "raised"
    /\ exception = "ValueError"
    /\ skippingChunk
    /\ dcf = Append(AsWritten(FullDcf), Entry("Languages", 0))

\* Some emitted relation names the row as its primary or its secondary
\* column, with a link other than *ROWID*.
NamedByRelation(row) ==
    \E r \in DOMAIN myRelations :
        \/ /\ myRelations[r]["PrimaryLink"] # "*ROWID*"
           /\ myRelations[r]["PrimaryTable"] = row["RecordName"]
           /\ myRelations[r]["PrimaryLink"] = Get(row, "Name", "")
        \/ /\ myRelations[r]["SecondaryLink"] # "*ROWID*"
           /\ myRelations[r]["SecondaryTable"] = row["RecordName"]
           /\ myRelations[r]["SecondaryLink"] = Get(row, "Name", "")

\* C18: when parse() completes, a row has ItemType JoinableItem if and only
\* if it was emitted as Item and some emitted relation names (its
\* RecordName, its Name) as (PrimaryTable, PrimaryLink) or (SecondaryTable,
\* SecondaryLink) with a link other than *ROWID*; the rows emitted as IdItem
\* or as the record description, and the Item rows that no relation names,
\* stay as they were emitted, and of a joinable row only the type changes.
C18_JoinableFinalization ==
    [][dcfPc = "lines" /\ dcfPc' = "parsed" =>
          /\ Len(myItems') = Len(myItems)
          /\ _items' = Attribute(myItems')
          /\ \A i \in DOMAIN myItems :
                /\ myItems'[i]["ItemType"] = "JoinableItem"
                      <=> /\ myItems[i]["ItemType"] = "Item"
                          /\ NamedByRelation(myItems[i])
                /\ myItems'[i]["ItemType"] # "JoinableItem"
                      => myItems'[i] = myItems[i]
                /\ myItems'[i]["ItemType"] = "JoinableItem"
                      => myItems'[i] = Put(myItems[i], "ItemType", "JoinableItem")
      ]_vars

\* parse() has completed for the full dictionary, whose relation joins
\* REC01 by V001 to REC02 by CASEID: V001 is joinable, the id-item CASEID of
\* REC02 and the item V002 keep their types.
C18_Witness ==
    /\ dcfPc = "parsed"
    /\ dcf = AsWritten(FullDcf)
    /\ Len(_relations.value) > 0
    /\ RecordSpecRows[1]["ItemType"] = "RecordDesciption"
    /\ PairOf(RecordSpecRows[3]) = <<"REC01", "V001">>
    /\ RecordSpecRows[3]["ItemType"] = "JoinableItem"
    /\ PairOf(RecordSpecRows[4]) = <<"REC02", "CASEID">>
    /\ RecordSpecRows[4]["ItemType"] = "IdItem"
    /\ PairOf(RecordSpecRows[5]) = <<"REC02", "V002">>
    /\ RecordSpecRows[5]["ItemType"] = "Item"

\* C19 (as claimed): for every survey that run() writes, also the 2nd and
\* the 3rd of the same process, the header of FlatRecordSpec.csv is exactly
\* ItemType, FileCode, RecordName, RecordTypeValue, RecordLabel, Name,
\* Label, Start, Len, Occurrences, ZeroFill, DecimalChar, Decimal, followed
\* by FMETYPE exactly once (run() writes with fme_compatible true), and the
\* relations header has the fixed 6 names.
C19_AsClaimed ==
    dcfPc = "written" =>
        /\ FlatRecordSpec.header =
              <<"ItemType", "FileCode", "RecordName", "RecordTypeValue",
                "RecordLabel", "Name", "Label", "Start", "Len", "Occurrences",
                "ZeroFill", "DecimalChar", "Decimal", "FMETYPE">>
        /\ RelationshipsSpec.header =
              <<"FileCode", "RelName", "PrimaryTable", "PrimaryLink",
                "SecondaryTable", "SecondaryLink">>

\* The second survey of a run() is written: the header of its
\* FlatRecordSpec.csv ends with FMETYPE, FMETYPE.
C19_SecondSurvey ==
    /\ dcfPc = "written"
    /\ surveys = 1
    /\ Len(FlatRecordSpec.header) = 15
    /\ FlatRecordSpec.header[14] = "FMETYPE"
    /\ FlatRecordSpec.header[15] = "FMETYPE"
    /\ \A k \in DOMAIN FlatRecordSpec.rows : Len(FlatRecordSpec.rows[k]) = 15


(***************************************************************************)
(* Claims about the skip marker of parse_dat_file (SpecDAT)                *)
(***************************************************************************)
\* The marker file <stem>.REC01.csv is in the output folder.
MarkerExists == "REC01" \in DOMAIN outFolder

\* C20: when <stem>.REC01.csv is in the output folder at the call of
\* parse_dat_file, the call returns at once: its only step ends it, that step
\* creates, rewrites and deletes no file, the spec CSV is not read (the call
\* never reaches the loop over the lines, which needs the parsed spec) and no
\* line of the DAT file is read; nothing happens after the return.
C20_SkipMarkerNoOp ==
    /\ [][(MarkerExists /\ datPc = "start")
            => /\ datPc' = "skipped"
               /\ outFolder' = outFolder
               /\ dat' = <<>>
               /\ result' = <<>>
               /\ n_cols_per_table' = <<>>
               /\ reported' = <<>>
               /\ writeIdx' = 0]_vars
    /\ [][datPc # "skipped"]_vars

\* A call that found the marker has returned.
C20_Witness ==
    /\ datPc = "skipped"
    /\ MarkerExists
    /\ outFolder["REC01"] = OldFile
    /\ dat = <<>>


(***************************************************************************)
(* Claims about interrupted runs (SpecDAT)                                 *)
(***************************************************************************)
\* The file that the loop of lines 114-128 writes for a record type.
OutputOf(tag) == rt_field_info(specCsv, tag)[1].RecordName

\* The outputs of this call that are not in the output folder yet.
MissingOutputs == {tag \in DOMAIN result : OutputOf(tag) \notin DOMAIN outFolder}

\* C21: while parse_dat_file writes its files, the skip marker
\* <stem>.REC01.csv is not in the output folder as long as another output of
\* the call is missing, so that a run interrupted at that point is not taken
\* for a finished one by the run that follows it.
C21_AsClaimed ==
    (datPc = "write" /\ MarkerExists) => MissingOutputs = {}

\* The marker is written and the file of another record type is not.
C21_MarkerBeforeLastFile ==
    /\ datPc = "write"
    /\ MarkerExists
    /\ outFolder["REC01"] # OldFile
    /\ MissingOutputs # {}

(***************************************************************************)
(* Claims about the catalog tables (SpecMeta)                              *)
(***************************************************************************)
\* The last call was of the method, and it returned.
Returned(method) == dbCall[1] = method /\ dbRaised = ""

\* The step is a call of the method that returns.
Returns(method) == dbCall'[1] = method /\ dbRaised' = ""

\* The catalog table and the rows that a load of the file sends to it.
TargetOf(f) == IF _file_is_cols_or_vals(f) = "COLS" THEN "tablespec" ELSE "valuespec"
FrameOf(f) == IF _file_is_cols_or_vals(f) = "COLS" THEN TableFrame(f) ELSE ValuesFrame(f)
StringsOf(table) == IF table = "tablespec" THEN TablespecStrings ELSE ValuespecStrings

\* The step loads the metadata file f, not as a dry run, and the load returns.
LoadsMetadata(f) ==
    /\ ~dry_run
    /\ \/ Returns("load_new_table_file")
       \/ Returns("load_new_values_file")
    /\ dbCall'[2] = f

\* C22: a load of a metadata file that returns, not as a dry run, leaves every
\* varchar(n) column of its catalog table at least as wide as the longest
\* value of that column in the file, and no step lowers the width of a column
\* of a catalog table; so every column is at least as wide as the longest
\* value of any batch loaded so far.
C22_WidthMonotonicity ==
    /\ [][\A f \in MetadataFiles :
            LoadsMetadata(f) =>
                \A c \in StringsOf(TargetOf(f)) :
                    specWidths'[TargetOf(f)][c] >= IncomingLength(FrameOf(f), c)]_vars
    /\ [][\A t \in DOMAIN specWidths : \A c \in DOMAIN specWidths[t] :
            specWidths'[t][c] >= specWidths[t][c]]_vars
    /\ [](\A t \in DOMAIN specWidths : \A c \in DOMAIN specWidths[t] :
            \A r \in BagToSet(Db[t]) : Len(r[c]) <= specWidths[t][c])

\* The file with the longest record label is in the catalog, and the load
\* of a file with shorter labels has returned and left the column as wide.
C22_Witness ==
    /\ ~dry_run
    /\ Returned("load_new_table_file")
    /\ dbCall[2] = Women101
    /\ BagIn(TableFrame(Women103)[1], tablespec)
    /\ BagIn(TableFrame(Women101)[1], tablespec)
    /\ specWidths["tablespec"]["recordlabel"] = Len(Label_CountrySpecific)
    /\ specWidths["tablespec"]["name"] = Len(CASEID)

\* A load that sends a value longer than its column, in a column of numbers
\* that the width check leaves out, does not return.
C22_NumbersNotWidened ==
    /\ ~dry_run
    /\ dbCall[1] = "load_new_values_file"
    /\ dbCall[2] = Values102
    /\ dbRaised = "DataError"
    /\ specWidths["valuespec"]["value"] = 1

(***************************************************************************)
(* Claims about the data tables (SpecData)                                 *)
(***************************************************************************)
\* The rows that the catalog has for a record.
CatalogRows(t) == {r \in BagToSet(tablespec) : r.recordname = t}

\* The fields that the catalog declares for a record, in lower case.
DeclaredFields(t) == {Lower(r.name) : r \in CatalogRows(t)}

\* The largest len that the catalog rows of a record declare for a field.
CatalogMax(t, c) == MaxOf({r.len : r \in {x \in CatalogRows(t) : Lower(x.name) = c}})

\* The data table has a jsonb column.
IsJsonTable(t) == t \in JsonTablesOf(dataTables)

\* The varchar(n) columns of a data table that hold a field of the catalog.
FieldColumns(t) ==
    {c \in DOMAIN dataTables[t].cols :
        c # surveyid_name /\ dataTables[t].cols[c].type = "varchar"}

\* Every column of the table that holds a field is as wide as the largest
\* len the catalog declares for the field, and a columnar table has a column
\* for every field the catalog declares.
UnionWidth(t) ==
    /\ \A c \in FieldColumns(t) :
          /\ c \in DeclaredFields(t)
          /\ dataTables[t].cols[c].width = CatalogMax(t, c)
    /\ ~IsJsonTable(t) => DeclaredFields(t) \subseteq DOMAIN dataTables[t].cols

MutatingCalls ==
    {"load_new_table_file", "load_new_values_file", "drop_and_reload",
     "delete_table_col_entries_for_svy_filetype",
     "delete_value_entries_for_svy_filetype",
     "prepare_db_for_file", "load_table", "data drop_and_reload",
     "delete_table_entries_for_survey"}

\* The schema and the rows of the warehouse are those of Init.
WarehouseAsAtInit ==
    /\ tablespec = EmptyBag
    /\ valuespec = EmptyBag
    /\ dataTables = <<>>
    /\ indices = {}
    /\ \E n \in {1, 3} :
          specWidths = [tablespec |-> [c \in TablespecStrings |-> n],
                        valuespec |-> [c \in ValuespecStrings |-> n]]

\* C24 (as claimed): in a dry run every call that would change the warehouse
\* returns normally, and the schema and the rows of the warehouse stay those
\* of the start.
C24_AsClaimed ==
    dry_run =>
        /\ WarehouseAsAtInit
        /\ dbCall[1] \in MutatingCalls => dbRaised = ""

\* In a dry run drop_and_reload of a metadata file raises AttributeError.
C24_DryRunDropAndReloadRaises ==
    /\ dry_run
    /\ dbCall[1] = "drop_and_reload"
    /\ dbRaised = "AttributeError"
    /\ WarehouseAsAtInit

\* The number of rows of a catalog table with the surveyid and a filecode
\* that matches '__<file_type>__'.
MatchingRows(table, surveyid, file_type) ==
    BagCardinality(
        [r \in {x \in BagToSet(Db[table]) :
                   /\ x.surveyid = surveyid
                   /\ LikeThirdFourth(x.filecode, file_type)}
           |-> CopiesIn(r, Db[table])])

\* C25 (as claimed): get_any_in_db_cols and get_any_in_db_vals return True
\* exactly when the catalog table has at least one row with the surveyid and
\* a filecode that matches '__<file_type>__'.
C25_AsClaimed ==
    Returned("get_any_in_db") =>
        dbReturn = (MatchingRows(dbCall[2], dbCall[3], dbCall[4]) >= 1)

\* The catalog table has exactly one matching row and the call returns False.
C25_OneRowIsNone ==
    /\ Returned("get_any_in_db")
    /\ MatchingRows(dbCall[2], dbCall[3], dbCall[4]) = 1
    /\ dbReturn = FALSE

\* The rows of the catalog table that the file targets, for the survey and
\* the file type of the file.
RowsOfFile(f) ==
    LET info == parse_survey_info(f)
        rows == Db[TargetOf(f)]
    IN  [r \in {x \in BagToSet(rows) :
                   /\ x.surveyid = info.surveyid
                   /\ LikeThirdFourth(x.filecode, info.filetype)}
           |-> CopiesIn(r, rows)]

\* C26 (as claimed): after drop_and_reload of a metadata file, not as a dry
\* run, the call has returned and the rows of the catalog table for the
\* survey and the file type of the file are the rows of the file.
C26_AsClaimed ==
    (~dry_run /\ dbCall[1] = "drop_and_reload") =>
        /\ dbRaised = ""
        /\ RowsOfFile(dbCall[2]) = SeqBag(FrameOf(dbCall[2]))

\* drop_and_reload raises AttributeError and the rows of the file are not in
\* the catalog table.
C26_RaisesAndLoadsNothing ==
    /\ ~dry_run
    /\ dbCall[1] = "drop_and_reload"
    /\ dbRaised = "AttributeError"
    /\ RowsOfFile(dbCall[2]) = EmptyBag

\* The step is a prepare_db_for_file, not as a dry run, that creates the data
\* table and returns.
Creates(t) ==
    /\ ~dry_run
    /\ Returns("prepare_db_for_file")
    /\ dbCall'[2] = t
    /\ t \notin DOMAIN dataTables
    /\ t \in DOMAIN dataTables'

\* Some catalog row of the record itself has a label that matches 'cs:%' or
\* is 'country specific'.
RecordIsCountrySpecific(t) ==
    \E r \in CatalogRows(t) :
        LikeCs(r.recordlabel) \/ LikeCountrySpecific(r.recordlabel)

\* C27 (as claimed): a data table that is created is a JSON table exactly
\* when the catalog declares more than 500 fields for its record or a catalog
\* row of the record itself has a country-specific label; the labels of other
\* records have no part in it.
C27_AsClaimed ==
    [][\A t \in DataTableNames :
          Creates(t) =>
              (IsJsonTable(t)' <=>
                  \/ Cardinality(DeclaredFields(t)) > _MAX_COLUMN_THRESHOLD
                  \/ RecordIsCountrySpecific(t))]_vars

\* REC01, no row of which has a country-specific label, is a JSON table: the
\* catalog has a row of another record with the label 'Country Specific'.
C27_OtherRecordsLabel ==
    /\ "REC01" \in DOMAIN dataTables
    /\ IsJsonTable("REC01")
    /\ ~RecordIsCountrySpecific("REC01")
    /\ CatalogRows("REC01") # {}
    /\ \E r \in BagToSet(tablespec) :
          r.recordname # "REC01" /\ LikeCountrySpecific(r.recordlabel)

\* The index-like fields that the catalog declares for a record.
IndexLikeFields(t) == {c \in DeclaredFields(t) : _col_shld_be_firstclass(c)}

\* The columns that a JSON table of the record is to have.
JsonColumnsOf(t) == {surveyid_name, data_name} \cup IndexLikeFields(t)

\* C28 (as claimed): a JSON table that is created has the column surveyid, a
\* varchar column for every index-like field of its record, one jsonb column
\* data, and no other column.
C28_AsClaimed ==
    [][\A t \in DataTableNames :
          (Creates(t) /\ IsJsonTable(t)') =>
              /\ DOMAIN dataTables'[t].cols = JsonColumnsOf(t)
              /\ \A c \in DOMAIN dataTables'[t].cols :
                    dataTables'[t].cols[c].type =
                        IF c = data_name THEN "jsonb" ELSE "varchar"]_vars

\* REC91 is created as a JSON table without a column for its index-like
\* field BIDX, the third of its fields: the row of data took its place.
C28_IndexFieldMissing ==
    /\ ~dry_run
    /\ Returned("prepare_db_for_file")
    /\ dbCall[2] = "REC91"
    /\ "REC91" \in DOMAIN dataTables
    /\ "REC91" \notin _known_tables
    /\ IsJsonTable("REC91")
    /\ Lower(BIDX) \in IndexLikeFields("REC91")
    /\ Lower(BIDX) \notin DOMAIN dataTables["REC91"].cols
    /\ Lower(CASEID) \in DOMAIN dataTables["REC91"].cols

\* The largest start that the catalog rows of a record declare for a field.
CatalogStart(t, c) ==
    MaxOf({r.start : r \in {x \in CatalogRows(t) : Lower(x.name) = c}})

\* The column list of a columnar table of the record: surveyid varchar(3),
\* then one varchar column for each field, in lower case, as wide as the
\* largest len declared for it, the fields in the order of start.
IsColumnarList(clauses, t) ==
    /\ Len(clauses) = 1 + Cardinality(DeclaredFields(t))
    /\ clauses[1] = [name |-> surveyid_name, col |-> Varchar(3)]
    /\ \A c \in DeclaredFields(t) :
          \E k \in 2..Len(clauses) :
              clauses[k] = [name |-> c, col |-> Varchar(CatalogMax(t, c))]
    /\ \A i, j \in 2..Len(clauses) :
          i < j => CatalogStart(t, clauses[i].name) <= CatalogStart(t, clauses[j].name)

\* C29 (as claimed): whatever the catalog holds, the column list that
\* _get_column_clauses computes for a columnar table is surveyid varchar(3)
\* and then one column for each field name in lower case, with the largest
\* len, in the order of start; names that differ in letter case make one
\* column.
C29_AsClaimed ==
    \A t \in DataTableNames :
        \A whats_needed \in OrdersByStart(Groups(tablespec, t)) :
            LET cc == _get_column_clauses(tablespec, t, whats_needed)
            IN  ~cc.is_json => IsColumnarList(cc.clauses, t)

\* The catalog has V001 and v001 for REC01, and the CREATE TABLE of
\* prepare_db_for_file is refused for its two columns named v001.
C29_CaseVariantsRefused ==
    /\ ~dry_run
    /\ dbCall = <<"prepare_db_for_file", "REC01">>
    /\ dbRaised = "ProgrammingError"
    /\ "REC01" \notin DOMAIN dataTables
    /\ {V001, V001_lower} \subseteq {r.name : r \in CatalogRows("REC01")}
    /\ \A r \in BagToSet(tablespec) : ~LikeCountrySpecific(r.recordlabel)

\* The step is a prepare_db_for_file, not as a dry run, that returns, for a
\* table that exists and that the session has not verified.
Repairs(t) ==
    /\ ~dry_run
    /\ Returns("prepare_db_for_file")
    /\ dbCall'[2] = t
    /\ t \in DOMAIN dataTables
    /\ t \notin _verified_tables

\* C30 (as claimed): when prepare_db_for_file returns for a table that exists
\* and was not verified, every field that the catalog declares for the record
\* (of a JSON table, every index-like one) is a column of the table, every
\* column that the catalog declares wider than it was is as wide as the
\* catalog declares, and no column is narrower than it was or gone.
C30_AsClaimed ==
    [][\A t \in DataTableNames :
          Repairs(t) =>
              LET before == dataTables[t].cols
                  after == dataTables'[t].cols
              IN  /\ (IF IsJsonTable(t) THEN IndexLikeFields(t)
                      ELSE DeclaredFields(t)) \subseteq DOMAIN after
                  /\ DOMAIN before \subseteq DOMAIN after
                  /\ \A c \in DOMAIN before :
                        /\ after[c].type = before[c].type
                        /\ after[c].width >= before[c].width
                        /\ (/\ c \in DeclaredFields(t)
                            /\ before[c].type = "varchar"
                            /\ CatalogMax(t, c) > before[c].width)
                           => after[c].width = CatalogMax(t, c)]_vars

\* A new session has verified the JSON table REC91, which has no column for
\* the index-like field BIDX of its record.
C30_IndexFieldNotAdded ==
    /\ ~dry_run
    /\ Returned("prepare_db_for_file")
    /\ dbCall[2] = "REC91"
    /\ "REC91" \in _known_tables
    /\ "REC91" \in _verified_tables
    /\ IsJsonTable("REC91")
    /\ Lower(BIDX) \in IndexLikeFields("REC91")
    /\ Lower(BIDX) \notin DOMAIN dataTables["REC91"].cols

(***************************************************************************)
(* Claims about the rows of the data tables (SpecLoad)                     *)
(***************************************************************************)
\* The rows of a data table that are of the survey, and the other ones.
SurveyRows(t, s) ==
    [r \in {x \in BagToSet(dataTables[t].rows) : x[surveyid_name] = s}
        |-> CopiesIn(r, dataTables[t].rows)]

OtherRows(t, s) ==
    [r \in {x \in BagToSet(dataTables[t].rows) : x[surveyid_name] # s}
        |-> CopiesIn(r, dataTables[t].rows)]

\* The rows of a data file as the session sends them to the table.
SentBy(f) == SeqBag(Sent(f, f.table \in _json_tables))

\* The step is the call of the method with the data file, no dry run, and
\* the call returns.
LoadsData(method, f) ==
    /\ ~dry_run
    /\ Returns(method)
    /\ dbCall'[2] = f

\* C31: after a drop_and_reload of a data file that returns, no dry run, the
\* rows of the survey of the file in the table of the file are the rows of
\* the file, each once, and the rows of other surveys and the other tables
\* are as they were; a second drop_and_reload of the file that follows
\* leaves the tables as they are; a load_table adds the rows of the file to
\* the rows that the table has.
C31_DropAndReload ==
    /\ [][\A f \in DataFiles :
             LoadsData("data drop_and_reload", f) =>
                 /\ SurveyRows(f.table, f.surveyid)' = SentBy(f)
                 /\ OtherRows(f.table, f.surveyid)' = OtherRows(f.table, f.surveyid)
                 /\ \A u \in DOMAIN dataTables \ {f.table} :
                       dataTables'[u] = dataTables[u]]_vars
    /\ [][\A f \in DataFiles :
             (/\ Returned("data drop_and_reload")
              /\ dbCall[2] = f
              /\ LoadsData("data drop_and_reload", f))
             => dataTables' = dataTables]_vars
    /\ [][\A f \in DataFiles :
             LoadsData("load_table", f) =>
                 dataTables'[f.table].rows = dataTables[f.table].rows (+) SentBy(f)]_vars

\* The rows of survey 101 in REC01, loaded before, have been dropped and
\* loaded again, next to the rows of survey 102.
C31_Witness ==
    /\ ~dry_run
    /\ Returned("data drop_and_reload")
    /\ dbCall[2] = DataREC01
    /\ loads = 2
    /\ SurveyRows("REC01", "101") = SentBy(DataREC01)
    /\ BagCardinality(SurveyRows("REC01", "101")) = 1
    /\ BagCardinality(OtherRows("REC01", "101")) >= 1

\* The rows of a file are twice in the table after two calls of load_table.
C31_LoadTableAppends ==
    /\ ~dry_run
    /\ Returned("load_table")
    /\ dbCall[2] = DataREC01
    /\ \E r \in BagToSet(SentBy(DataREC01)) :
          CopiesIn(r, dataTables["REC01"].rows) = 2

(***************************************************************************)
(* Claims about processes that load side by side (SpecPar)                 *)
(***************************************************************************)
\* Process p has passed column k: it has compared the incoming length of the
\* column with the width that it read.
ParPassed(p, k) ==
    \/ par[p].pc \in {"insert", "done"}
    \/ par[p].pc \in {"read", "alter"} /\ par[p].col > k

\* C32 (as claimed): in whatever order the two processes read the widths and
\* send their ALTERs, no step makes a column of tablespec narrower, and once
\* both processes have passed a column it is at least as wide as the larger
\* of the two incoming lengths.
C32_AsClaimed ==
    /\ [][\A c \in TablespecStrings :
             specWidths'.tablespec[c] >= specWidths.tablespec[c]]_vars
    /\ [](\A k \in 1..Len(ParColumns) :
             (\A p \in Procs : ParPassed(p, k)) =>
                 \A p \in Procs :
                     specWidths.tablespec[ParColumns[k]] >= ParIncoming(p, k))

\* Both processes have passed recordlabel, and the column is narrower than
\* the label of survey 103: the process of survey 101 read the width before
\* the ALTER of the other one and sent its own ALTER after it.
C32_NarrowedByStaleRead ==
    /\ \A p \in Procs : ParPassed(p, 3)
    /\ specWidths.tablespec["recordlabel"] = ParIncoming(1, 3)
    /\ ParIncoming(1, 3) < ParIncoming(2, 3)

(***************************************************************************)
(* Claims about the tables that a session lists as modified (SpecData)     *)
(***************************************************************************)
\* The step creates the table, drops it, or changes its columns or its rows.
TableChanged(t) ==
    \/ (t \in DOMAIN dataTables) # (t \in DOMAIN dataTables')
    \/ /\ t \in DOMAIN dataTables
       /\ t \in DOMAIN dataTables'
       /\ dataTables'[t] # dataTables[t]

\* The step puts the table into _modified_tables.
NewlyModified(t) == t \in _modified_tables' /\ t \notin _modified_tables

\* C33 (as claimed): a statement of the session that changes a data table
\* puts it into the tables that list_modified_tables returns, nothing else
\* does, and in a dry run the set stays empty.
C33_AsClaimed ==
    /\ [][\A t \in DataTableNames :
             (~dry_run /\ TableChanged(t)) => t \in _modified_tables']_vars
    /\ [][\A t \in DataTableNames :
             NewlyModified(t) => (~dry_run /\ TableChanged(t))]_vars
    /\ [](dry_run => _modified_tables = {})

\* A session that is no dry run has widened or added a column of REC01,
\* which is in its set; REC91, which it created, is not.
C33_CreatedTableNotListed ==
    /\ ~dry_run
    /\ "REC01" \in _modified_tables
    /\ "REC01" \in _known_tables
    /\ "REC91" \in _verified_tables \ _known_tables
    /\ "REC91" \in DOMAIN dataTables
    /\ "REC91" \notin _modified_tables

\* A dry run has REC01 in its set.
C33_DryRunListsTable ==
    /\ dry_run
    /\ "REC01" \in _modified_tables
    /\ Returned("prepare_db_for_file")

(***************************************************************************)
(* Claims about the relations that RelationRowProcessor returns (SpecRel)  *)
(***************************************************************************)
\* The link of a returned relation for a link as the processor holds it.
LinkOrRowId(link) == IF link # "" THEN link ELSE "*ROWID*"

\* Python's "is None", for a value that is None or a relation.
IsNone(v) == ToString(v) = ToString(None)

\* The last call returned a relation.
ReturnedRelation == ~relRaised /\ ~IsNone(relReturn)

\* C34: whatever AddRow and Emit calls are made, a relation that is returned
\* has a name, a primary table and a secondary table that are not empty and
\* links that are not empty: each link is the one the processor held before
\* the call, or *ROWID* when it held none; and a call made while the name,
\* the primary table or the secondary table is empty returns nothing.
C34_WellFormedRelations ==
    /\ [](ReturnedRelation =>
             /\ relReturn.RelName # ""
             /\ relReturn.PrimaryTable # ""
             /\ relReturn.SecondaryTable # ""
             /\ relReturn.PrimaryLink # ""
             /\ relReturn.SecondaryLink # "")
    /\ [][ReturnedRelation' =>
             /\ relReturn'.RelName = myRelationProcessor.RelationshipName
             /\ relReturn'.PrimaryTable = myRelationProcessor.PrimaryTable
             /\ relReturn'.SecondaryTable = myRelationProcessor.SecondaryTable
             /\ relReturn'.PrimaryLink = LinkOrRowId(myRelationProcessor.PrimaryLink)
             /\ relReturn'.SecondaryLink = LinkOrRowId(myRelationProcessor.SecondaryLink)]_vars
    /\ [][(\/ myRelationProcessor.RelationshipName = ""
           \/ myRelationProcessor.PrimaryTable = ""
           \/ myRelationProcessor.SecondaryTable = "")
          => IsNone(relReturn')]_vars

\* PrimaryLink= with an empty value, after a relation with no links: the
\* relation is returned with *ROWID* for both links.
C34_Witness ==
    /\ ReturnedRelation
    /\ relCall = <<"PrimaryLink", "">>
    /\ relReturn.PrimaryLink = "*ROWID*"
    /\ relReturn.SecondaryLink = "*ROWID*"
    /\ myRelationProcessor.SecondaryTable = ""

\* The processor holds a join with a primary link: PrimaryLink=L and then
\* Secondary=S1 were read under a name and a primary table.
HoldsLinkedJoin(self) ==
    /\ self.RelationshipName # ""
    /\ self.PrimaryTable # ""
    /\ self.PrimaryLink # ""
    /\ self.SecondaryTable # ""

\* The last call was a Secondary=S2 that returned the join of an earlier
\* secondary table.
AfterRepeatedSecondary ==
    /\ Len(relCall) = 2
    /\ relCall[1] = "Secondary"
    /\ relCall[2] # ""
    /\ ReturnedRelation

\* C35: with name and primary table set, after PrimaryLink=L and
\* Secondary=S1 (and possibly SecondaryLink=K1), a Secondary=S2 with no
\* PrimaryLink in between returns the join (L, S1, K1 or *ROWID*) at that
\* call; the join emitted afterwards for S2 has PrimaryLink *ROWID*, and
\* SecondaryLink *ROWID* unless a SecondaryLink row followed S2, whose value
\* it then has.
C35_RepeatedSecondary ==
    /\ [][(HoldsLinkedJoin(myRelationProcessor)
             /\ relCall'[1] = "Secondary" /\ relCall'[2] # "")
          => /\ ReturnedRelation'
             /\ relReturn' = Relation(myRelationProcessor.RelationshipName,
                                      myRelationProcessor.PrimaryTable,
                                      myRelationProcessor.PrimaryLink,
                                      myRelationProcessor.SecondaryTable,
                                      LinkOrRowId(myRelationProcessor.SecondaryLink))]_vars
    /\ [][(AfterRepeatedSecondary /\ relCall'[1] = "Emit")
          => /\ ReturnedRelation'
             /\ relReturn' = Relation(relReturn.RelName, relReturn.PrimaryTable,
                                      "*ROWID*", relCall[2], "*ROWID*")]_vars
    /\ [][(AfterRepeatedSecondary /\ relCall'[1] = "SecondaryLink")
          => /\ myRelationProcessor'.PrimaryLink = ""
             /\ myRelationProcessor'.SecondaryTable = relCall[2]
             /\ myRelationProcessor'.SecondaryLink = relCall'[2]]_vars
    /\ [][(Len(relCall) = 2 /\ relCall[1] = "SecondaryLink" /\ relCall[2] # ""
             /\ myRelationProcessor.PrimaryLink = ""
             /\ myRelationProcessor.SecondaryTable # ""
             /\ myRelationProcessor.RelationshipName # ""
             /\ myRelationProcessor.PrimaryTable # ""
             /\ relCall'[1] = "Emit")
          => /\ ReturnedRelation'
             /\ relReturn'.PrimaryLink = "*ROWID*"
             /\ relReturn'.SecondaryLink = relCall[2]]_vars

\* Secondary=S2 after PrimaryLink=L2, Secondary=S1, SecondaryLink=L1: the
\* call returned the join (L2, S1, L1) and the processor holds S2 with no
\* links.
C35_Witness ==
    /\ AfterRepeatedSecondary
    /\ relCall[2] = "S2"
    /\ relReturn = Relation("R", "P", "L2", "S1", "L1")
    /\ myRelationProcessor.PrimaryLink = ""
    /\ myRelationProcessor.SecondaryTable = "S2"
    /\ myRelationProcessor.SecondaryLink = ""

(***************************************************************************)
(* Claims about the [Relation] chunks of a dictionary (SpecDCF)            *)
(***************************************************************************)
\* The next line is the blank line that ends a [Relation] chunk.
EndsRelationChunk ==
    /\ dcfPc = "lines"
    /\ currentChunkType = "Relation"
    /\ ~skippingChunk
    /\ blankLines = 0
    /\ dcfLine' = "blank"

\* C36: at the blank line that ends a [Relation] chunk one RelationSpec row
\* with the file code of the survey is appended if the relation state
\* machine holds a completed join, and nothing is appended otherwise; in
\* both cases the state machine is reset and parse() goes on with the next
\* chunk, also when the chunk has no Secondary line.
C36_AsClaimed ==
    [][EndsRelationChunk =>
          /\ dcfPc' = "lines"
          /\ myRelationProcessor' = EmptyProcessor
          /\ myRelations' =
                IF canEmit(myRelationProcessor)
                THEN Append(myRelations,
                            Put(GetReturnObj(myRelationProcessor),
                                "FileCode", FileCode))
                ELSE myRelations]_vars

\* The blank line behind a [Relation] chunk with a Name and a Primary line
\* and no Secondary line: Emit() returned None and parse() has aborted with
\* TypeError at the assignment of FileCode.
C36_NoSecondaryLineRaises ==
    /\ dcfPc = "raised"
    /\ exception = "TypeError"
    /\ dcfLine = "blank"
    /\ blankLines = 1
    /\ dcf # <<>>
    /\ dcf[Len(dcf)].chunk = "RelationNoSecondary"
    /\ myRelationProcessor = EmptyProcessor

\* The next line is a line Key=Value of a chunk that is not a [Relation]
\* chunk.
KeyLineOutsideRelation ==
    /\ dcfPc = "lines"
    /\ chunkRest # <<>>
    /\ currentChunkType # "Relation" \/ skippingChunk
    /\ dcfLine' = "key"

\* C37: the lines Key=Value go to the relation state machine only while the
\* chunk that is read is a [Relation] chunk: a line of a [Level], [Item],
\* [ValueSet] or unknown chunk behind a [Relation] chunk does not reach
\* AddRow, so it leaves the state machine and the relations as they are and
\* raises none of AddRow's errors.
C37_AsClaimed ==
    [][KeyLineOutsideRelation =>
          /\ myRelationProcessor' = myRelationProcessor
          /\ myRelations' = myRelations
          /\ currentlyParsing = "Relation" => dcfPc' # "raised"]_vars

\* The full dictionary with an [Item] chunk behind its [Relation] chunk: the
\* line Name=V001 of the item was given to AddRow, which took it as the
\* name of a relation.
C37_ItemBehindRelation ==
    /\ dcfPc = "lines"
    /\ dcfLine = "key"
    /\ currentChunkType = "Item"
    /\ dcf = Append(AsWritten(FullDcf), Entry("V001", 0))
    /\ myRelationProcessor.RelationshipName = "V001"
    /\ "Name" \notin DOMAIN chunkInfo

(***************************************************************************)
(* Claims about the owner of a valueset (SpecDCF)                          *)
(***************************************************************************)
\* The [Item] chunks in front of the chunk that is read, and the nearest of
\* them (0 when there is none).
ItemChunksBefore == {i \in 1..(Len(dcf) - 1) : TagOf(dcf[i].chunk) = "Item"}
NearestItemChunk ==
    IF ItemChunksBefore = {} THEN 0
    ELSE CHOOSE i \in ItemChunksBefore : \A j \in ItemChunksBefore : j <= i

\* C38: the values of a [ValueSet] chunk are attached to the row of the
\* item that the nearest [Item] chunk in front of it declares, also when
\* that chunk is an id-item of an [IdItems] block; they are not attached to
\* the record description row.
C38_AsClaimed ==
    [][(Terminates("ValueSet") /\ blankLines = 0 /\ NearestItemChunk # 0) =>
          LET n == Len(myItems)
          IN  /\ dcfPc' = "lines"
              /\ n > 0
              /\ myItems[n]["ItemType"] # "RecordDesciption"
              /\ Get(myItems[n], "Name", "")
                    = Field(dcf[NearestItemChunk].chunk, "Name")
              /\ Len(myItems') = n
              /\ ValuesOf(myItems'[n]) # <<>>
              /\ SubSeq(ValuesOf(myItems'[n]), 1, Len(ValuesOf(myItems[n])))
                    = ValuesOf(myItems[n])]_vars

\* [ValueSet] Label=Age group stands behind the id-item CASEID of the
\* [IdItems] block: no row of CASEID is emitted yet, the last emitted row is
\* the description row, and parse() has aborted at the terminator.
C38_ValuesetBehindIdItem ==
    /\ dcfPc = "raised"
    /\ exception = "KeyError"
    /\ dcfLine = "blank"
    /\ dcf = <<Entry("Dictionary", 1), Entry("Level", 1), Entry("IdItems", 1),
               Entry("CASEID", 1), Entry("AgeGroupValues", 1)>>
    /\ Len(currentIds) = 1
    /\ Len(myItems) = 1
    /\ myItems[1]["ItemType"] = "RecordDesciption"
    /\ "Values" \notin DOMAIN myItems[1]

(***************************************************************************)
(* Claims about the rows that a delete of catalog rows removes (SpecMeta)  *)
(***************************************************************************)
\* The rows of a catalog table that the existence check counts for a
\* survey and a file type.
CountedRows(rows, surveyid, file_type) ==
    {r \in BagToSet(rows) :
        r.surveyid = surveyid /\ LikeThirdFourth(r.filecode, file_type)}

\* The step has removed from a catalog table the rows that the existence
\* check counts, all copies of them, and has left every other row as it was.
RemovesCountedRows(before, after, surveyid, file_type) ==
    /\ BagToSet(after) = BagToSet(before) \ CountedRows(before, surveyid, file_type)
    /\ \A r \in BagToSet(after) : CopiesIn(r, after) = CopiesIn(r, before)

\* C39: a delete of the catalog rows of (survey_id, file_type) removes the
\* rows of the survey whose filecode has the file type as its 3rd and 4th
\* characters, the rows that the existence check matches, and no other row:
\* the rows of the survey with the other file type, whatever the country
\* code, and the rows of other surveys stay, as does the other catalog
\* table.
C39_AsClaimed ==
    [][/\ (~dry_run /\ dbCall'[1] = "delete_table_col_entries_for_svy_filetype") =>
              /\ RemovesCountedRows(tablespec, tablespec', dbCall'[2], dbCall'[3])
              /\ valuespec' = valuespec
       /\ (~dry_run /\ dbCall'[1] = "delete_value_entries_for_svy_filetype") =>
              /\ RemovesCountedRows(valuespec, valuespec', dbCall'[2], dbCall'[3])
              /\ tablespec' = tablespec
      ]_vars

\* The values of the women's file of survey 104, of the country with the
\* code MR, were loaded (only they make the description column two wide),
\* and delete_value_entries_for_svy_filetype('104', 'mr') has removed them,
\* while the existence check for ('104', 'mr') counts no row.
C39_OtherFileTypeRemoved ==
    /\ ~dry_run
    /\ dbCall[1] = "delete_value_entries_for_svy_filetype"
    /\ dbCall[2] = "104"
    /\ dbCall[3] = <<"m", "r">>
    /\ valuespec = EmptyBag
    /\ tablespec = EmptyBag
    /\ loads = 1
    /\ specWidths["valuespec"]["value_desc"] = 2
    /\ dbRaised = ""

====
